---------------------------- MODULE Spec2Model ----------------------------
(***************************************************************************)
(* A model of ostree-rs-ext: the tar import filter (lib/src/tar/write.rs), *)
(* the image reference grammar (lib/src/container/mod.rs), the fetch       *)
(* pipeline helpers (lib/src/container/unencapsulate.rs) and the commit    *)
(* preparation walker (lib/src/commit.rs).                                 *)
(*                                                                         *)
(* Each subsystem has its own variables and its own specification          *)
(* (SpecPath, SpecRef, SpecJoin, SpecProgress, SpecCommit, SpecTar); the   *)
(* variables of the other subsystems stay at their idle values.            *)
(*                                                                         *)
(* Strings are modelled as sequences: a path is the sequence of its        *)
(* '/'-separated segments, a reference string is a sequence of tokens      *)
(* (single characters and keywords), an error message a sequence of words. *)
(***************************************************************************)
EXTENDS Integers, Sequences, FiniteSets, TLC

VARIABLES
    np_in,        \* PathNormalizer: the path handed to normalize_validate_path
    np_out,       \* PathNormalizer: its result, or NotRun
    ref_x,        \* reference grammar: an OstreeImageReference value
    ref_str,      \* reference grammar: its printed form, or NotRun
    ref_parsed,   \* reference grammar: the result of parsing ref_str, or NotRun
    jf_worker,    \* join_fetch: the worker future's output, or Pending
    jf_driver,    \* join_fetch: the driver future's output, or Pending
    jf_result,    \* join_fetch: what join_fetch returned, or Pending
    pr_cfg,       \* progress: [layers, layer_index, size] of the running fetch, or NotRun
    pr_left,      \* progress: bytes of the blob not yet read
    pr_eof,       \* progress: the reader has returned end-of-stream
    pr_chan,      \* progress: the watch channel [value, version, closed]
    pr_seen,      \* progress: the version the receiver has marked seen
    pr_fwd,       \* progress: the forwarding task: "running" or "ended"
    pr_sink,      \* progress: the LayerProgress values sent to the sink, in order
    pr_driver,    \* progress: the output of the proxy's driver, or Pending
    pr_out,       \* progress: the output of the driver future returned, or Pending
    fs,           \* commit prep: the root tree, path -> kind
    cp_made,      \* commit prep: entries created so far by the environment
    cp_pre,       \* commit prep: the tree as it was when prepare was called
    cp_res,       \* commit prep: what prepare returned: "Ok", "Err", or "none"
    cp_walk,      \* commit prep: what the /var walk of prepare returned, or why
                  \* there was none
    cp_strict,    \* commit prep: whether prepare was the strict one
    cp_statx,     \* commit prep: whether is_mountpoint could tell (statx support)
    cp_rev,       \* commit prep: the order in which read_dir lists the entries
    cp_runs,      \* commit prep: number of prepare calls so far
    tf_input,     \* tar filter: the entries read so far
    tf_dest,      \* tar filter: the entries written to the output
    tf_pending,   \* tar filter: changed_sysroot_objects
    tf_relocated, \* tar filter: new_sysroot_link_targets
    tf_filtered,  \* tar filter: the tally
    tf_result,    \* tar filter: Running, or what filter_tar returned
    wt_pc,        \* write_tar: where the function is: "join", "copy_ok", "copy_err",
                  \* "done" ("idle" when not called)
    wt_child,     \* write_tar: the ostree child process
    wt_pipes,     \* write_tar: the bytes in the child's stdout and stderr pipes
    wt_bufs,      \* write_tar: child_stdout_buf and child_stderr_buf of output_copier,
                  \* and whether output_copier failed
    wt_filter,    \* write_tar: the output of the filtered_result future, or Pending
    wt_status,    \* write_tar: the output of the status future, or Pending
    wt_err,       \* write_tar: the error e of the Err arm, or NotRun
    wt_result,    \* write_tar: what write_tar returned, or Pending
    wt_sepolicy,  \* write_tar: the scratch SELinux policy directory: "none",
                  \* "live" or "destroyed"
    mg_init,      \* proxy merge: the configuration the caller built
    mg_cfg,       \* proxy merge: the configuration as it is now (*config)
    mg_user,      \* proxy merge: the isolation_user argument
    mg_env,       \* proxy merge: the environment [lookup, opens]
    mg_res,       \* proxy merge: the outcome of each application so far
    md_a,         \* manifest diff: the layers of a manifest a
    md_b,         \* manifest diff: the layers of a manifest b
    md_out,       \* manifest diff: ManifestDiff::new(a, b), (b, a) and (a, a), or NotRun
    rp_in,        \* reference parsing: the string handed to the parsers
    rp_img,       \* reference parsing: the result of ImageReference::try_from, or NotRun
    rp_ost,       \* reference parsing: the result of OstreeImageReference::try_from,
                  \* or NotRun
    rp_str,       \* reference parsing: to_string() of the two parsed values, or NotRun
    px_op,        \* manifest fetch: the function called
    px_ref,       \* manifest fetch: the image reference it was called with
    px_pc,        \* manifest fetch: where the function is
    px_proxy,     \* manifest fetch: the proxy: "none", "running" or "dropped"
    px_log,       \* manifest fetch: the requests the proxy has seen, in order
    px_open,      \* manifest fetch: the image handles open at the proxy
    px_result,    \* manifest fetch: what the function returned, or Pending
    dg_files,     \* /var walk counters: non-directory entries met so far
    dg_others,    \* /var walk counters: directories and foreign entries met so far
    dg_count,     \* /var walk counters: *error_count
    dg_diags,     \* /var walk counters: the entries a 'Found file' line was
                  \* printed for, by their number among the non-directory entries
    bs_in,        \* blob selection: the arguments of fetch_layer_decompress
    bs_out,       \* blob selection: the blob requests made and the outcome, or Pending
    fa_todo,      \* async filter: entries of the input the filter has not read yet
    fa_hold,      \* async filter: the pieces of output the filter has yet to write
                  \* for the entry it read
    fa_buf,       \* async filter: the output held by the duplex buffer
    fa_filter,    \* async filter: the output of tar_transformer, or Pending
    fa_copier,    \* async filter: the output of copier, or Pending
    fa_src,       \* async filter: who holds the input stream: "thread", "caller",
                  \* or "dropped" ("none" when not called)
    fa_result     \* async filter: what filter_tar_async returned, or Pending

pathVars   == <<np_in, np_out>>
refVars    == <<ref_x, ref_str, ref_parsed>>
joinVars   == <<jf_worker, jf_driver, jf_result>>
progVars   == <<pr_cfg, pr_left, pr_eof, pr_chan, pr_seen, pr_fwd, pr_sink, pr_driver, pr_out>>
commitVars == <<fs, cp_made, cp_pre, cp_res, cp_walk, cp_strict, cp_statx, cp_rev,
               cp_runs>>
tarVars    == <<tf_input, tf_dest, tf_pending, tf_relocated, tf_filtered, tf_result>>
wtVars     == <<wt_pc, wt_child, wt_pipes, wt_bufs, wt_filter, wt_status, wt_err, wt_result,
               wt_sepolicy>>
mgVars     == <<mg_init, mg_cfg, mg_user, mg_env, mg_res>>
\* The variables of the subsystems that follow write_tar in this module.
mdVars     == <<md_a, md_b, md_out>>
rpVars     == <<rp_in, rp_img, rp_ost, rp_str>>
pxVars     == <<px_op, px_ref, px_pc, px_proxy, px_log, px_open, px_result>>
dgVars     == <<dg_files, dg_others, dg_count, dg_diags>>
bsVars     == <<bs_in, bs_out>>
faVars     == <<fa_todo, fa_hold, fa_buf, fa_filter, fa_copier, fa_src, fa_result>>
restVars == <<mgVars, mdVars, rpVars, pxVars, dgVars, bsVars, faVars>>
\* The variables of the subsystems that follow filter_tar in this module.
extVars == <<wtVars, restVars>>
vars == <<pathVars, refVars, joinVars, progVars, commitVars, tarVars, extVars>>

\* What a variable holds before the operation that sets it has run.
NotRun   == [kind |-> "NotRun"]
Pending  == [kind |-> "Pending"]
NoResult == "none"

\* ------------------------------------------------------------ sequences

\* s1 is a prefix of s2.
IsPrefix(s1, s2) ==
    /\ Len(s1) <= Len(s2)
    /\ \A i \in 1..Len(s1) : s1[i] = s2[i]

\* s1 is a suffix of s2 (str::ends_with).
EndsWith(s2, s1) ==
    /\ Len(s1) <= Len(s2)
    /\ \A i \in 1..Len(s1) : s1[i] = s2[Len(s2) - Len(s1) + i]

\* Sequences over S of length 0..n.
SeqUpTo(S, n) == UNION {[1..k -> S] : k \in 0..n}

\* ================================================================
\* PathNormalizer (lib/src/tar/write.rs)
\* ================================================================

\* Bounds of the path inputs.
MaxSegs == 4

\* The '/'-separated segments a path is made of: "" is the empty segment of a
\* leading, trailing or repeated separator.
PathSegs == {"", ".", "..", "usr", "etc", "var"}

\* A path string, split at '/'. <<"", "usr">> is "/usr", <<"">> is the empty path.
PathInputs == UNION {[1..k -> PathSegs] : k \in 1..MaxSegs}

RootDir   == [c |-> "RootDir"]
CurDir    == [c |-> "CurDir"]
ParentDir == [c |-> "ParentDir"]
Normal(s) == [c |-> "Normal", s |-> s]

\* Utf8Path::components: a leading separator is RootDir, empty segments vanish,
\* "." is kept only as the first segment of a relative path, ".." is ParentDir.
RECURSIVE ComponentsFrom(_, _)
ComponentsFrom(p, i) ==
    IF i > Len(p) THEN <<>>
    ELSE LET rest == ComponentsFrom(p, i + 1) IN
         CASE p[i] = ""   -> IF i = 1 /\ Len(p) >= 2 THEN <<RootDir>> \o rest ELSE rest
           [] p[i] = "."  -> IF i = 1 THEN <<CurDir>> \o rest ELSE rest
           [] p[i] = ".." -> <<ParentDir>> \o rest
           [] OTHER       -> <<Normal(p[i])>> \o rest

Components(p) == ComponentsFrom(p, 1)

\* The closure with an absolute root refused instead of folded into CurDir.
MapPart_RootIsError(part) ==
    CASE part.c \in {"Normal", "CurDir"} -> [ok |-> TRUE, part |-> part]
      [] OTHER -> [ok |-> FALSE]

\* The closure of the .map() at the head of normalize_validate_path.
MapPart(part) ==
    CASE part.c = "RootDir" -> [ok |-> TRUE, part |-> CurDir]
      [] part.c \in {"Normal", "CurDir"} -> [ok |-> TRUE, part |-> part]
      [] OTHER -> [ok |-> FALSE]

NormalizedNormal(p)   == [kind |-> "Normal", path |-> p]
NormalizedFiltered(o) == [kind |-> "Filtered", prefix |-> o]
NormalizedErr         == [kind |-> "Err"]

\* Utf8PathBuf::push of one component onto a relative path.
PushPart(ret, part) ==
    CASE part.c = "CurDir"    -> Append(ret, ".")
      [] part.c = "ParentDir" -> Append(ret, "..")
      [] OTHER                -> Append(ret, part.s)

\* The for loop of normalize_validate_path over the lazily mapped components.
RECURSIVE NormalizeLoop(_, _, _, _)
NormalizeLoop(comps, i, ret, found_first) ==
    IF i > Len(comps) THEN NormalizedNormal(ret)
    ELSE LET m == MapPart(comps[i]) IN
         IF ~m.ok THEN NormalizedErr
         ELSE IF ~found_first
              THEN IF m.part.c = "Normal"
                   THEN CASE m.part.s = "usr" ->
                               NormalizeLoop(comps, i + 1, Append(ret, "usr"), TRUE)
                          [] m.part.s = "etc" ->
                               NormalizeLoop(comps, i + 1, ret \o <<"usr", "etc">>, TRUE)
                          [] OTHER -> NormalizedFiltered(m.part.s)
                   ELSE NormalizeLoop(comps, i + 1, PushPart(ret, m.part), FALSE)
              ELSE NormalizeLoop(comps, i + 1, PushPart(ret, m.part), TRUE)

\* normalize_validate_path without the leading "./" it inserts.
normalize_validate_path_NoLead(path) == NormalizeLoop(Components(path), 1, <<>>, FALSE)

\* normalize_validate_path: the result path is a sequence of segments.
normalize_validate_path(path) ==
    LET comps == Components(path)
        lead  == IF Len(comps) > 0 /\ MapPart(comps[1]).ok
                    /\ MapPart(comps[1]).part.c = "Normal"
                 THEN <<".">> ELSE <<>>
    IN NormalizeLoop(comps, 1, lead, FALSE)

PathIdle == np_in = <<"">> /\ np_out = NotRun
PathInit == np_in \in PathInputs /\ np_out = NotRun

NormalizePath ==
    /\ np_out = NotRun
    /\ np_out' = normalize_validate_path(np_in)
    /\ UNCHANGED <<np_in, refVars, joinVars, progVars, commitVars, tarVars, extVars>>

\* ================================================================
\* Reference grammar (lib/src/container/mod.rs)
\* ================================================================

\* Bound on the length of image names and remote names.
MaxNameLen == 2

\* The characters names are made of. Keywords ("docker", "oci", ...) are single
\* tokens: none of them can be spelled with these characters.
NameChars == {":", "/", "a"}
Names == SeqUpTo(NameChars, MaxNameLen)

Transports == {"Registry", "OciDir", "OciArchive", "ContainerStorage"}

OstreeRemote(r) == [sig |-> "OstreeRemote", remote |-> r]
ContainerPolicy == [sig |-> "ContainerPolicy"]
ContainerPolicyAllowInsecure == [sig |-> "ContainerPolicyAllowInsecure"]
SignatureSources ==
    {OstreeRemote(r) : r \in Names} \cup {ContainerPolicy, ContainerPolicyAllowInsecure}

ImageReference(t, n) == [transport |-> t, name |-> n]
OstreeImageReference(sv, ir) == [sigverify |-> sv, imgref |-> ir]
OstreeImageReferences ==
    {OstreeImageReference(sv, ImageReference(t, n)) :
        sv \in SignatureSources, t \in Transports, n \in Names}

ParseOk(v) == [ok |-> TRUE, v |-> v]
ParseErr   == [ok |-> FALSE]

\* str::split_once(':'): the index of the first ':' (0 when there is none).
RECURSIVE FirstColonFrom(_, _)
FirstColonFrom(s, i) ==
    IF i > Len(s) THEN 0
    ELSE IF s[i] = ":" THEN i ELSE FirstColonFrom(s, i + 1)

HasColon(s)    == FirstColonFrom(s, 1) # 0
BeforeColon(s) == SubSeq(s, 1, FirstColonFrom(s, 1) - 1)
AfterColon(s)  == SubSeq(s, FirstColonFrom(s, 1) + 1, Len(s))

\* impl TryFrom<&str> for Transport, an unknown tag being taken for a registry.
TransportTryFrom_DefaultRegistry(value) ==
    CASE value = <<"oci">>                -> ParseOk("OciDir")
      [] value = <<"oci-archive">>        -> ParseOk("OciArchive")
      [] value = <<"containers-storage">> -> ParseOk("ContainerStorage")
      [] OTHER -> ParseOk("Registry")

\* impl TryFrom<&str> for Transport
TransportTryFrom(value) ==
    CASE value \in {<<"registry">>, <<"docker">>} -> ParseOk("Registry")
      [] value = <<"oci">>                -> ParseOk("OciDir")
      [] value = <<"oci-archive">>        -> ParseOk("OciArchive")
      [] value = <<"containers-storage">> -> ParseOk("ContainerStorage")
      [] OTHER -> ParseErr

\* impl TryFrom<&str> for ImageReference, with the leading "//" of docker:// left
\* in the name.
ImageReferenceTryFrom_KeepSlashes(value) ==
    IF ~HasColon(value) THEN ParseErr
    ELSE LET transport == TransportTryFrom(BeforeColon(value))
             name      == AfterColon(value)
         IN IF ~transport.ok \/ name = <<>> THEN ParseErr
            ELSE ParseOk(ImageReference(transport.v, name))

\* impl TryFrom<&str> for ImageReference
ImageReferenceTryFrom(value) ==
    IF ~HasColon(value) THEN ParseErr
    ELSE LET transport_name == BeforeColon(value)
             name           == AfterColon(value)
             transport      == TransportTryFrom(transport_name)
         IN IF ~transport.ok THEN ParseErr
            ELSE IF name = <<>> THEN ParseErr
            ELSE IF transport_name = <<"docker">>
                 THEN IF IsPrefix(<<"/", "/">>, name)
                      THEN ParseOk(ImageReference(transport.v, SubSeq(name, 3, Len(name))))
                      ELSE ParseErr
                 ELSE ParseOk(ImageReference(transport.v, name))

\* impl TryFrom<&str> for OstreeImageReference
OstreeImageReferenceTryFrom(value) ==
    IF ~HasColon(value) THEN ParseErr
    ELSE LET first  == BeforeColon(value)
             second == AfterColon(value)
             \* [ok, sigverify, rest]
             head ==
                 CASE first = <<"ostree-image-signed">> ->
                        [ok |-> TRUE, sigverify |-> ContainerPolicy, rest |-> second]
                   [] first = <<"ostree-unverified-image">> ->
                        [ok |-> TRUE, sigverify |-> ContainerPolicyAllowInsecure,
                         rest |-> second]
                   [] first = <<"ostree-unverified-registry">> ->
                        [ok |-> TRUE, sigverify |-> ContainerPolicyAllowInsecure,
                         rest |-> <<"registry", ":">> \o second]
                   [] first = <<"ostree-remote-registry">> ->
                        IF ~HasColon(second) THEN [ok |-> FALSE]
                        ELSE [ok |-> TRUE, sigverify |-> OstreeRemote(BeforeColon(second)),
                              rest |-> <<"registry", ":">> \o AfterColon(second)]
                   [] first = <<"ostree-remote-image">> ->
                        IF ~HasColon(second) THEN [ok |-> FALSE]
                        ELSE [ok |-> TRUE, sigverify |-> OstreeRemote(BeforeColon(second)),
                              rest |-> AfterColon(second)]
                   [] OTHER -> [ok |-> FALSE]
         IN IF ~head.ok THEN ParseErr
            ELSE LET imgref == ImageReferenceTryFrom(head.rest) IN
                 IF ~imgref.ok THEN ParseErr
                 ELSE ParseOk(OstreeImageReference(head.sigverify, imgref.v))

\* impl Display for Transport printing a registry with the tag "registry:".
TransportDisplay_RegistryTag(t) ==
    CASE t = "Registry"         -> <<"registry", ":">>
      [] t = "OciArchive"       -> <<"oci-archive", ":">>
      [] t = "OciDir"           -> <<"oci", ":">>
      [] t = "ContainerStorage" -> <<"containers-storage", ":">>

\* impl Display for Transport
TransportDisplay(t) ==
    CASE t = "Registry"         -> <<"docker", ":", "/", "/">>
      [] t = "OciArchive"       -> <<"oci-archive", ":">>
      [] t = "OciDir"           -> <<"oci", ":">>
      [] t = "ContainerStorage" -> <<"containers-storage", ":">>

\* impl Display for ImageReference
ImageReferenceDisplay(ir) == TransportDisplay(ir.transport) \o ir.name

\* impl Display for SignatureSource
SignatureSourceDisplay(sv) ==
    CASE sv.sig = "OstreeRemote"    -> <<"ostree-remote-image", ":">> \o sv.remote
      [] sv.sig = "ContainerPolicy" -> <<"ostree-image-signed">>
      [] sv.sig = "ContainerPolicyAllowInsecure" -> <<"ostree-unverified-image">>

\* impl Display for OstreeImageReference
OstreeImageReferenceDisplay(x) ==
    SignatureSourceDisplay(x.sigverify) \o <<":">> \o ImageReferenceDisplay(x.imgref)

RefIdle ==
    /\ ref_x = OstreeImageReference(ContainerPolicy, ImageReference("Registry", <<>>))
    /\ ref_str = NotRun
    /\ ref_parsed = NotRun

RefInit == ref_x \in OstreeImageReferences /\ ref_str = NotRun /\ ref_parsed = NotRun

\* x.to_string()
PrintRef ==
    /\ ref_str = NotRun
    /\ ref_str' = [kind |-> "Str", s |-> OstreeImageReferenceDisplay(ref_x)]
    /\ UNCHANGED <<ref_x, ref_parsed, pathVars, joinVars, progVars, commitVars, tarVars, extVars>>

\* OstreeImageReference::try_from(the printed form)
ParseRef ==
    /\ ref_str # NotRun
    /\ ref_parsed = NotRun
    /\ ref_parsed' = OstreeImageReferenceTryFrom(ref_str.s)
    /\ UNCHANGED <<ref_x, ref_str, pathVars, joinVars, progVars, commitVars, tarVars, extVars>>

\* ================================================================
\* join_fetch (lib/src/container/unencapsulate.rs)
\* ================================================================

\* Bounds: words in a root-cause message, context layers around it.
MaxWords == 3
MaxCtx == 1

\* An error message is a sequence of words; an error (anyhow::Error) is its chain
\* of messages, the outermost context first and the root cause last.
Words == {"broken", "pipe", "eof"}
RootMsgs == SeqUpTo(Words, MaxWords) \ {<<>>}
CtxChains == SeqUpTo({<<"fetching", "blob">>}, MaxCtx)

Ok(v)      == [ok |-> TRUE, v |-> v]
Err(chain) == [ok |-> FALSE, chain |-> chain]

DriverOutputs == {Ok("unit")} \cup {Err(c \o <<m>>) : c \in CtxChains, m \in RootMsgs}
WorkerOutputs ==
    {Ok(v) : v \in {"commit1", "commit2"}}
    \cup {Err(c \o <<m>>) : c \in CtxChains, m \in {<<"eof">>, <<"broken", "pipe">>}}

\* anyhow::Error::root_cause().to_string()
RootCause(e) == e.chain[Len(e.chain)]

\* anyhow::Error::context
Context(e, msg) == Err(<<msg>> \o e.chain)

\* format!("proxy failure: {} and client error", text)
ProxyFailureMsg(text) == <<"proxy", "failure:">> \o text \o <<"and", "client", "error">>

\* join_fetch with the two error arms of the match swapped.
join_fetch_match_Swapped(worker, driver) ==
    CASE worker.ok /\ driver.ok   -> Ok(worker.v)
      [] ~worker.ok /\ ~driver.ok ->
           LET text == RootCause(driver) IN
           IF EndsWith(text, <<"broken", "pipe">>)
           THEN worker
           ELSE Context(worker, ProxyFailureMsg(text))
      [] worker.ok /\ ~driver.ok  -> Ok(worker.v)
      [] ~worker.ok /\ driver.ok  -> worker

\* join_fetch that attaches the driver's failure whatever its root cause is.
join_fetch_match_AlwaysContext(worker, driver) ==
    CASE worker.ok /\ driver.ok   -> Ok(worker.v)
      [] ~worker.ok /\ ~driver.ok ->
           Context(worker, ProxyFailureMsg(RootCause(driver)))
      [] worker.ok /\ ~driver.ok  -> driver
      [] ~worker.ok /\ driver.ok  -> worker

\* The match of join_fetch on the two outputs.
join_fetch_match(worker, driver) ==
    CASE worker.ok /\ driver.ok   -> Ok(worker.v)
      [] ~worker.ok /\ ~driver.ok ->
           LET text == RootCause(driver) IN
           IF EndsWith(text, <<"broken", "pipe">>)
           THEN worker
           ELSE Context(worker, ProxyFailureMsg(text))
      [] worker.ok /\ ~driver.ok  -> driver
      [] ~worker.ok /\ driver.ok  -> worker

JoinIdle == jf_worker = Pending /\ jf_driver = Pending /\ jf_result = Pending
JoinInit == JoinIdle

\* The worker future completes.
WorkerCompletes ==
    /\ jf_worker = Pending
    /\ \E r \in WorkerOutputs : jf_worker' = r
    /\ UNCHANGED <<jf_driver, jf_result, pathVars, refVars, progVars, commitVars, tarVars, extVars>>

\* The driver future completes.
DriverCompletes ==
    /\ jf_driver = Pending
    /\ \E r \in DriverOutputs : jf_driver' = r
    /\ UNCHANGED <<jf_worker, jf_result, pathVars, refVars, progVars, commitVars, tarVars, extVars>>

\* tokio::join! has both outputs: join_fetch returns.
JoinFetchReturns ==
    /\ jf_worker # Pending
    /\ jf_driver # Pending
    /\ jf_result = Pending
    /\ jf_result' = join_fetch_match(jf_worker, jf_driver)
    /\ UNCHANGED <<jf_worker, jf_driver, pathVars, refVars, progVars, commitVars, tarVars, extVars>>

\* ================================================================
\* ProgressReader and fetch_layer_decompress
\* (lib/src/container/unencapsulate.rs)
\* ================================================================

\* Bounds: layers in the manifest, bytes in the blob, bytes one read returns.
MaxLayers == 3
MaxSize == 4
MaxChunk == 2

\* The initial value of the watch channel made by ProgressReader::new.
ProgressInitial == 1

\* ProgressReader::new: tokio::sync::watch::channel(1).
ProgressReaderNew == [value |-> ProgressInitial, version |-> 0, closed |-> FALSE]

\* The Ready(Ok) arm of poll_read: state = *progress.borrow() + read; send(state).
PollReadSend(chan, read) ==
    [chan EXCEPT !.value = chan.value + read, !.version = chan.version + 1]

LayerProgress(i, f, t) == [layer_index |-> i, fetched |-> f, total |-> t]

ProgIdle ==
    /\ pr_cfg = NotRun
    /\ pr_left = 0
    /\ pr_eof = FALSE
    /\ pr_chan = ProgressReaderNew
    /\ pr_seen = 0
    /\ pr_fwd = "ended"
    /\ pr_sink = <<>>
    /\ pr_driver = Pending
    /\ pr_out = Pending
ProgInit == ProgIdle

\* The error of the proxy's driver.
DriverError == <<"proxy", "driver", "failed">>

\* The driver future completing with the proxy driver's output alone.
JoinDriver_ProxyOnly(fwd, driver) == driver

\* futures_util::future::join(readproxy, driver).map(|r| r.1): Pending until
\* readproxy has ended and the proxy's driver has completed, then the output of
\* the proxy's driver.
JoinDriver(fwd, driver) ==
    IF fwd = "ended" /\ driver # Pending THEN driver ELSE Pending

\* fetch_layer_decompress with a progress sink: the layer is at layer_index in a
\* manifest of `layers` layers, the blob has `size` bytes.
FetchLayerDecompress ==
    /\ pr_cfg = NotRun
    /\ \E layers \in 1..MaxLayers, size \in 0..MaxSize :
         \E layer_index \in 0..(layers - 1) :
            /\ pr_cfg' = [layers |-> layers, layer_index |-> layer_index, size |-> size]
            /\ pr_left' = size
    /\ pr_chan' = ProgressReaderNew
    /\ pr_seen' = 0
    /\ pr_fwd' = "running"
    /\ pr_eof' = FALSE
    /\ pr_sink' = <<>>
    /\ UNCHANGED <<pr_driver, pr_out, pathVars, refVars, joinVars, commitVars, tarVars, extVars>>

\* ProgressReader::poll_read returning Ready(Ok) with `read` bytes (0 at the end
\* of the stream).
PollRead ==
    /\ pr_cfg # NotRun
    /\ ~pr_chan.closed
    /\ ~pr_eof
    /\ \E read \in 0..MaxChunk :
         /\ read <= pr_left
         /\ (read = 0) = (pr_left = 0)
         /\ pr_left' = pr_left - read
         /\ pr_eof' = (read = 0)
         /\ pr_chan' = PollReadSend(pr_chan, read)
    /\ UNCHANGED <<pr_cfg, pr_seen, pr_fwd, pr_sink, pr_driver, pr_out,
                   pathVars, refVars, joinVars, commitVars, tarVars, extVars>>

\* One turn of the readproxy loop: changed() returns Ok for an unseen value, which
\* is read with borrow_and_update and sent to the sink.
ForwardProgress ==
    /\ pr_cfg # NotRun
    /\ pr_fwd = "running"
    /\ pr_seen # pr_chan.version
    /\ pr_seen' = pr_chan.version
    /\ pr_sink' = Append(pr_sink,
                         LayerProgress(pr_cfg.layer_index, pr_chan.value, pr_cfg.size))
    /\ UNCHANGED <<pr_cfg, pr_left, pr_eof, pr_chan, pr_fwd, pr_driver, pr_out,
                   pathVars, refVars, joinVars, commitVars, tarVars, extVars>>

\* The reader (and with it the progress sender) is dropped.
DropReader ==
    /\ pr_cfg # NotRun
    /\ ~pr_chan.closed
    /\ pr_chan' = [pr_chan EXCEPT !.closed = TRUE]
    /\ UNCHANGED <<pr_cfg, pr_left, pr_eof, pr_seen, pr_fwd, pr_sink, pr_driver, pr_out,
                   pathVars, refVars, joinVars, commitVars, tarVars, extVars>>

\* changed() returns Err: the sender is gone and every value was seen. The
\* readproxy loop ends.
ForwarderEnds ==
    /\ pr_cfg # NotRun
    /\ pr_fwd = "running"
    /\ pr_chan.closed
    /\ pr_seen = pr_chan.version
    /\ pr_fwd' = "ended"
    /\ UNCHANGED <<pr_cfg, pr_left, pr_eof, pr_chan, pr_seen, pr_sink, pr_driver, pr_out,
                   pathVars, refVars, joinVars, commitVars, tarVars, extVars>>

\* The proxy's driver completes, with Ok or with an error.
ProxyDriverCompletes ==
    /\ pr_cfg # NotRun
    /\ pr_driver = Pending
    /\ pr_driver' \in {Ok("unit"), Err(<<DriverError>>)}
    /\ UNCHANGED <<pr_cfg, pr_left, pr_eof, pr_chan, pr_seen, pr_fwd, pr_sink, pr_out,
                   pathVars, refVars, joinVars, commitVars, tarVars, extVars>>

\* The driver future returned by fetch_layer_decompress, polled by its caller,
\* completes.
ReturnedDriverCompletes ==
    /\ pr_cfg # NotRun
    /\ pr_out = Pending
    /\ JoinDriver(pr_fwd, pr_driver) # Pending
    /\ pr_out' = JoinDriver(pr_fwd, pr_driver)
    /\ UNCHANGED <<pr_cfg, pr_left, pr_eof, pr_chan, pr_seen, pr_fwd, pr_sink, pr_driver,
                   pathVars, refVars, joinVars, commitVars, tarVars, extVars>>

\* ================================================================
\* Commit preparation (lib/src/commit.rs)
\* ================================================================

\* Bound: entries the environment creates in the root before prepare is called.
MaxNodes == 4

\* Directories for which we will always remove all content.
FORCE_CLEAN_PATHS == <<<<"run">>, <<"tmp">>, <<"var", "tmp">>, <<"var", "cache">>>>

\* The names an entry of directory p may have in the model: the root holds run,
\* tmp and var, /var holds tmp, cache and lib, /run holds a and b, and below
\* them the tree is a chain of up to two more entries named a.
ChildNames(p) ==
    CASE p = <<>>                     -> {"run", "tmp", "var"}
      [] p = <<"var">>                -> {"tmp", "cache", "lib"}
      [] p = <<"run">>                -> {"a", "b"}
      [] p \in {<<"tmp">>, <<"var", "tmp">>, <<"var", "cache">>, <<"var", "lib">>,
                <<"run", "a">>, <<"run", "a", "a">>, <<"var", "tmp", "a">>,
                <<"var", "lib", "a">>} -> {"a"}
      [] OTHER                        -> {}

AllNames == <<"run", "tmp", "var", "cache", "lib", "a", "b">>

\* The paths of the model, relative to the root directory.
RECURSIVE PathsBelow(_)
PathsBelow(p) ==
    UNION {{Append(p, n)} \cup PathsBelow(Append(p, n)) : n \in ChildNames(p)}

CpPaths == PathsBelow(<<>>)

\* What a path holds. "dir" and "file" are on the root device ("file" is any
\* non-directory that is not a symbolic link; the trees of the model have no
\* symbolic links); "xdev" is an entry whose st_dev differs from rootdev (another
\* filesystem mounted there); "mnt" is a directory of the root device that is a
\* bind mount point.
Kinds == {"dir", "file", "xdev", "mnt"}

IsDir(k) == k \in {"dir", "mnt"}

Parent(p) == SubSeq(p, 1, Len(p) - 1)

\* The entries of directory p in tree f.
Children(f, p) == {q \in {Append(p, n) : n \in ChildNames(p)} : f[q] # "none"}

\* The paths strictly beneath p.
Beneath(p) == {q \in CpPaths : Len(q) > Len(p) /\ SubSeq(q, 1, Len(p)) = p}

\* read_dir: the names of p's entries. The order is the file system's: the model
\* takes the order of AllNames or its reverse.
RECURSIVE EntriesFrom(_, _, _, _)
EntriesFrom(f, p, rev, i) ==
    IF i > Len(AllNames) THEN <<>>
    ELSE LET n    == AllNames[IF rev THEN Len(AllNames) + 1 - i ELSE i]
             rest == EntriesFrom(f, p, rev, i + 1)
         IN IF n \in ChildNames(p) /\ f[Append(p, n)] # "none"
            THEN <<n>> \o rest ELSE rest

ReadDir(f, p, rev) == EntriesFrom(f, p, rev, 1)

\* Dir::remove_dir: fails on a directory that has entries (ENOTEMPTY) or is a mount
\* point (EBUSY).
RemoveDir(f, p) ==
    IF f[p] = "mnt" \/ Children(f, p) # {}
    THEN [fs |-> f, err |-> TRUE]
    ELSE [fs |-> [f EXCEPT ![p] = "none"], err |-> FALSE]

\* Dir::remove_file
RemoveFile(f, p) == [fs |-> [f EXCEPT ![p] = "none"], err |-> FALSE]

\* Dir::open_dir_optional: "none" when a component is missing, "err" when a
\* component is not a directory, "dir" otherwise. Nothing is modelled inside
\* another filesystem, so a path through an "xdev" entry is missing.
RECURSIVE OpenDirFrom(_, _, _)
OpenDirFrom(f, p, i) ==
    IF i > Len(p) THEN "dir"
    ELSE LET k == f[SubSeq(p, 1, i)] IN
         CASE k = "none" -> "none"
           [] k = "file" -> "err"
           [] k = "xdev" -> IF i = Len(p) THEN "dir" ELSE "none"
           [] OTHER      -> OpenDirFrom(f, p, i + 1)

OpenDirOptional(f, p) == OpenDirFrom(f, p, 1)

\* remove_all_on_mount_recurse: [fs, err, skipped]. The loop handles entries
\* names[i..].
RECURSIVE RemoveAllLoop(_, _, _, _, _, _)
RemoveAllLoop(f, path, rev, names, i, skipped) ==
    IF i > Len(names)
    THEN IF ~skipped
         THEN [fs |-> RemoveDir(f, path).fs, err |-> RemoveDir(f, path).err,
               skipped |-> skipped]
         ELSE [fs |-> f, err |-> FALSE, skipped |-> skipped]
    ELSE LET p == Append(path, names[i]) IN
         IF f[p] = "xdev"
         THEN RemoveAllLoop(f, path, rev, names, i + 1, TRUE)
         ELSE IF IsDir(f[p])
              THEN LET r == RemoveAllLoop(f, p, rev, ReadDir(f, p, rev), 1, FALSE) IN
                   IF r.err THEN [fs |-> r.fs, err |-> TRUE, skipped |-> skipped]
                   ELSE RemoveAllLoop(r.fs, path, rev, names, i + 1, skipped \/ r.skipped)
              ELSE RemoveAllLoop(RemoveFile(f, p).fs, path, rev, names, i + 1, skipped)

\* remove_all_on_mount_recurse with the device test inverted: every entry of the
\* root device is skipped.
remove_all_on_mount_recurse_SkipAll(f, path, rev) ==
    [fs |-> f, err |-> FALSE, skipped |-> TRUE]

remove_all_on_mount_recurse(f, path, rev) ==
    RemoveAllLoop(f, path, rev, ReadDir(f, path, rev), 1, FALSE)

\* is_mountpoint(root, path)?.unwrap_or_default(): statx reports the mount point,
\* or the kernel is too old to tell (None).
IsMountpoint(f, p, statx) == statx /\ f[p] = "mnt"

\* clean_subdir on the opened directory sub: [fs, err].
RECURSIVE CleanSubdirLoop(_, _, _, _, _, _)
CleanSubdirLoop(f, sub, statx, rev, names, i) ==
    IF i > Len(names) THEN [fs |-> f, err |-> FALSE]
    ELSE LET p == Append(sub, names[i]) IN
         IF f[p] = "xdev"
         THEN CleanSubdirLoop(f, sub, statx, rev, names, i + 1)
         ELSE IF IsMountpoint(f, p, statx)
              THEN CleanSubdirLoop(f, sub, statx, rev, names, i + 1)
              ELSE IF IsDir(f[p])
                   THEN LET r == remove_all_on_mount_recurse(f, p, rev) IN
                        IF r.err THEN [fs |-> r.fs, err |-> TRUE]
                        ELSE CleanSubdirLoop(r.fs, sub, statx, rev, names, i + 1)
                   ELSE CleanSubdirLoop(RemoveFile(f, p).fs, sub, statx, rev, names, i + 1)

clean_subdir(f, sub, statx, rev) ==
    CleanSubdirLoop(f, sub, statx, rev, ReadDir(f, sub, rev), 1)

\* clean_paths_in: [fs, err], over FORCE_CLEAN_PATHS[i..].
RECURSIVE CleanPathsLoop(_, _, _, _)
CleanPathsLoop(f, statx, rev, i) ==
    IF i > Len(FORCE_CLEAN_PATHS) THEN [fs |-> f, err |-> FALSE]
    ELSE LET path == FORCE_CLEAN_PATHS[i]
             o    == OpenDirOptional(f, path)
         IN CASE o = "err"  -> [fs |-> f, err |-> TRUE]
              [] o = "none" -> CleanPathsLoop(f, statx, rev, i + 1)
              [] OTHER ->
                   LET r == clean_subdir(f, path, statx, rev) IN
                   IF r.err THEN r ELSE CleanPathsLoop(r.fs, statx, rev, i + 1)

clean_paths_in(f, statx, rev) == CleanPathsLoop(f, statx, rev, 1)

\* The number an error count must stay below for its file to be reported.
DiagLimit == 20

VarDir == <<"var">>

\* process_vardir_recurse on the opened /var, path relative to it:
\* [fs, err, validated, ec, diags]. ec is *error_count, diags the number of
\* "Found file" lines printed. The loop handles entries names[i..].
RECURSIVE ProcessVardirLoop(_, _, _, _, _, _, _, _)

\* The loop with the non-directory arm of remove_all_on_mount_recurse: the file is
\* removed instead of counted.
ProcessVardirLoop_RemoveFile(f, path, rev, names, i, validated, ec, diags) ==
    IF i > Len(names)
    THEN IF validated /\ path # <<>> /\ path # <<"tmp">>
         THEN LET r == RemoveDir(f, VarDir \o path) IN
              [fs |-> r.fs, err |-> r.err, validated |-> validated,
               ec |-> ec, diags |-> diags]
         ELSE [fs |-> f, err |-> FALSE, validated |-> validated,
               ec |-> ec, diags |-> diags]
    ELSE LET sub == Append(path, names[i])
             k   == f[VarDir \o sub]
         IN IF k = "xdev"
            THEN ProcessVardirLoop(f, path, rev, names, i + 1, validated, ec, diags)
            ELSE IF IsDir(k)
                 THEN LET r == ProcessVardirLoop(f, sub, rev,
                                                 ReadDir(f, VarDir \o sub, rev), 1,
                                                 TRUE, ec, diags)
                      IN IF r.err
                         THEN [fs |-> r.fs, err |-> TRUE, validated |-> validated,
                               ec |-> r.ec, diags |-> r.diags]
                         ELSE ProcessVardirLoop(r.fs, path, rev, names, i + 1,
                                                validated /\ r.validated, r.ec, r.diags)
                 ELSE ProcessVardirLoop(RemoveFile(f, VarDir \o sub).fs, path, rev,
                                        names, i + 1, validated, ec, diags)

ProcessVardirLoop(f, path, rev, names, i, validated, ec, diags) ==
    IF i > Len(names)
    THEN IF validated /\ path # <<>> /\ path # <<"tmp">>
         THEN LET r == RemoveDir(f, VarDir \o path) IN
              [fs |-> r.fs, err |-> r.err, validated |-> validated,
               ec |-> ec, diags |-> diags]
         ELSE [fs |-> f, err |-> FALSE, validated |-> validated,
               ec |-> ec, diags |-> diags]
    ELSE LET sub == Append(path, names[i])
             k   == f[VarDir \o sub]
         IN IF k = "xdev"
            THEN ProcessVardirLoop(f, path, rev, names, i + 1, validated, ec, diags)
            ELSE IF IsDir(k)
                 THEN LET r == ProcessVardirLoop(f, sub, rev,
                                                 ReadDir(f, VarDir \o sub, rev), 1,
                                                 TRUE, ec, diags)
                      IN IF r.err
                         THEN [fs |-> r.fs, err |-> TRUE, validated |-> validated,
                               ec |-> r.ec, diags |-> r.diags]
                         ELSE ProcessVardirLoop(r.fs, path, rev, names, i + 1,
                                                validated /\ r.validated, r.ec, r.diags)
                 ELSE ProcessVardirLoop(f, path, rev, names, i + 1, FALSE, ec + 1,
                                        IF ec + 1 < DiagLimit THEN diags + 1 ELSE diags)

process_vardir_recurse(f, path, rev, ec) ==
    ProcessVardirLoop(f, path, rev, ReadDir(f, VarDir \o path, rev), 1, TRUE, ec, 0)

\* The outcome of the walk as process_var sees it: Err, Ok(true) or Ok(false).
WalkOutcome(w) == IF w.err THEN "error" ELSE IF w.validated THEN "true" ELSE "false"

\* Why process_vardir_recurse was not called: clean_paths_in failed, /var is
\* missing, or /var could not be opened.
Unreached == "unreached"
NoVar     == "novar"
OpenErr   == "openerr"

\* process_var bailing out in strict mode with the tree as it found it.
process_var_StrictLeavesTree(f, strict, rev) ==
    LET o == OpenDirOptional(f, VarDir) IN
    CASE o = "err"  -> [fs |-> f, res |-> "Err", walk |-> OpenErr]
      [] o = "none" -> [fs |-> f, res |-> "Ok", walk |-> NoVar]
      [] OTHER ->
           LET w == process_vardir_recurse(f, <<>>, rev, 0) IN
           [fs |-> IF ~w.validated /\ strict THEN f ELSE w.fs,
            res |-> IF w.err \/ (~w.validated /\ strict) THEN "Err" ELSE "Ok",
            walk |-> WalkOutcome(w)]

\* process_var: [fs, res, walk].
process_var(f, strict, rev) ==
    LET o == OpenDirOptional(f, VarDir) IN
    CASE o = "err"  -> [fs |-> f, res |-> "Err", walk |-> OpenErr]
      [] o = "none" -> [fs |-> f, res |-> "Ok", walk |-> NoVar]
      [] OTHER ->
           LET w == process_vardir_recurse(f, <<>>, rev, 0) IN
           [fs |-> w.fs,
            res |-> IF w.err \/ (~w.validated /\ strict) THEN "Err" ELSE "Ok",
            walk |-> WalkOutcome(w)]

\* prepare_ostree_commit_in (strict) and prepare_ostree_commit_in_nonstrict.
prepare_ostree_commit(f, strict, statx, rev) ==
    LET c == clean_paths_in(f, statx, rev) IN
    IF c.err THEN [fs |-> c.fs, res |-> "Err", walk |-> Unreached]
    ELSE process_var(c.fs, strict, rev)

EmptyRoot == [p \in CpPaths |-> "none"]

CommitIdle ==
    /\ fs = EmptyRoot
    /\ cp_made = 0
    /\ cp_pre = EmptyRoot
    /\ cp_res = NoResult
    /\ cp_walk = NoResult
    /\ cp_strict = FALSE
    /\ cp_statx = FALSE
    /\ cp_rev = FALSE
    /\ cp_runs = 0
CommitInit == CommitIdle

\* The environment builds the root: create_dir, write, or a mount.
CreateEntry ==
    /\ cp_runs = 0
    /\ cp_made < MaxNodes
    /\ \E p \in CpPaths, k \in Kinds :
         /\ fs[p] = "none"
         /\ Len(p) > 1 => IsDir(fs[Parent(p)])
         /\ fs' = [fs EXCEPT ![p] = k]
    /\ cp_made' = cp_made + 1
    /\ UNCHANGED <<cp_pre, cp_res, cp_walk, cp_strict, cp_statx, cp_rev, cp_runs,
                   pathVars, refVars, joinVars, progVars, tarVars, extVars>>

\* A call of prepare_ostree_commit_in (strict) or
\* prepare_ostree_commit_in_nonstrict on the root.
Prepare ==
    /\ cp_runs = 0
    /\ \E strict \in BOOLEAN, statx \in BOOLEAN, rev \in BOOLEAN :
         LET r == prepare_ostree_commit(fs, strict, statx, rev) IN
         /\ fs' = r.fs
         /\ cp_res' = r.res
         /\ cp_walk' = r.walk
         /\ cp_strict' = strict
         /\ cp_statx' = statx
         /\ cp_rev' = rev
    /\ cp_pre' = fs
    /\ cp_runs' = 1
    /\ UNCHANGED <<cp_made, pathVars, refVars, joinVars, progVars, tarVars, extVars>>

\* The same function is called again on the root it has left; the kernel is the
\* same and read_dir lists the entries that are left in the order it had.
PrepareAgain ==
    /\ cp_runs = 1
    /\ LET r == prepare_ostree_commit(fs, cp_strict, cp_statx, cp_rev) IN
         /\ fs' = r.fs
         /\ cp_res' = r.res
         /\ cp_walk' = r.walk
    /\ cp_pre' = fs
    /\ cp_runs' = 2
    /\ UNCHANGED <<cp_made, cp_strict, cp_statx, cp_rev,
                   pathVars, refVars, joinVars, progVars, tarVars, extVars>>

\* ================================================================
\* filter_tar (lib/src/tar/write.rs)
\* ================================================================

\* Bound: entries in the input archive.
MaxEntries == 3

\* crate::tar::REPO_PREFIX, as path components.
REPO_PREFIX == <<"sysroot", "ostree", "repo">>

\* An empty link name field: header.link_name() is None.
NoLink == <<>>

\* Paths of the input archive.
ObjPath    == REPO_PREFIX \o <<"o">>
DotObjPath == <<".">> \o ObjPath
UsrA       == <<"usr", "a">>
UsrB       == <<"usr", "b">>
VarA       == <<"var", "a">>
UplinkPath == <<"usr", "..", "a">>

\* A tar entry: its path (entry.path()), its type, its mtime
\* (header.mtime().unwrap_or_default()), the link name in its header
\* (header.link_name()) and the long-form link name of a GNU or PAX extension, if
\* any. The body of an entry is named by the entry's index in the input.
Reg(p, m)       == [path |-> p, type |-> "Regular", mtime |-> m,
                    link |-> NoLink, long |-> NoLink]
Dir(p, m)       == [path |-> p, type |-> "Directory", mtime |-> m,
                    link |-> NoLink, long |-> NoLink]
Lnk(p, m, h, l) == [path |-> p, type |-> "Link", mtime |-> m, link |-> h, long |-> l]
Sym(p, m, h)    == [path |-> p, type |-> "Symlink", mtime |-> m,
                    link |-> h, long |-> NoLink]

TarEntries ==
    {Reg(ObjPath, 1), Reg(ObjPath, 0), Dir(ObjPath, 1),
     Reg(UsrA, 1), Reg(VarA, 0), Reg(UplinkPath, 1)}
    \cup {Lnk(p, 1, ObjPath, NoLink) : p \in {UsrA, UsrB, VarA, UplinkPath, DotObjPath}}
    \cup {Lnk(UsrB, 0, ObjPath, NoLink), Lnk(UsrB, 1, UsrA, NoLink),
          Lnk(UsrB, 1, NoLink, NoLink), Lnk(UsrB, 1, UsrA, ObjPath),
          Lnk(UsrB, 1, ObjPath, UsrA), Lnk(UsrB, 1, DotObjPath, NoLink),
          Lnk(UsrB, 1, REPO_PREFIX, ObjPath)}
    \cup {Sym(UsrB, 1, ObjPath)}

\* Utf8Path::strip_prefix(REPO_PREFIX).is_ok(): a comparison of components.
UnderRepoPrefix(p) == IsPrefix(Components(REPO_PREFIX), Components(p))

\* entry.link_name(): the long-form link name when the entry has one.
EntryLinkName(e) == IF e.long # NoLink THEN e.long ELSE e.link

\* An entry written to the output: its path, the type and mtime of the header it
\* was written with, its link target, the index of the input entry being
\* processed when it was written (src) and the index of the input entry whose
\* body it carries (body, 0 for a link).
OutEntry(p, t, m, l, src, body) ==
    [path |-> p, type |-> t, mtime |-> m, link |-> l, src |-> src, body |-> body]

\* HashMap insert and remove, keyed by path (paths compare by components).
MapInsert(m, k, v) == [x \in DOMAIN m \cup {k} |-> IF x = k THEN v ELSE m[x]]
MapRemove(m, k)    == [x \in DOMAIN m \ {k} |-> m[x]]
EmptyMap           == [x \in {} |-> x]

\* The state of one filter_tar call.
FilterState(dest, pending, relocated, filtered, err) ==
    [dest |-> dest, pending |-> pending, relocated |-> relocated,
     filtered |-> filtered, err |-> err]

\* copy_entry writing its entry ahead of the entries already written.
copy_entry_First(st, e, n, path) ==
    IF e.type \in {"Link", "Symlink"}
    THEN IF EntryLinkName(e) = NoLink
         THEN [st EXCEPT !.err = TRUE]
         ELSE [st EXCEPT !.dest =
                  <<OutEntry(path, e.type, e.mtime, EntryLinkName(e), n, 0)>> \o @]
    ELSE [st EXCEPT !.dest = <<OutEntry(path, e.type, e.mtime, NoLink, n, n)>> \o @]

\* copy_entry(entry, dest, Some(path))
copy_entry(st, e, n, path) ==
    IF e.type \in {"Link", "Symlink"}
    THEN IF EntryLinkName(e) = NoLink
         THEN [st EXCEPT !.err = TRUE]
         ELSE [st EXCEPT !.dest =
                  Append(@, OutEntry(path, e.type, e.mtime, EntryLinkName(e), n, 0))]
    ELSE [st EXCEPT !.dest = Append(@, OutEntry(path, e.type, e.mtime, NoLink, n, n))]

\* The tail of the loop body with a tally that records a prefix without counting
\* its entries.
FilterGeneral_InsertOnly(st, e, n) ==
    LET normalized == normalize_validate_path(e.path) IN
    CASE normalized.kind = "Err" -> [st EXCEPT !.err = TRUE]
      [] normalized.kind = "Filtered" ->
           [st EXCEPT !.filtered = MapInsert(@, normalized.prefix, 1)]
      [] OTHER -> copy_entry(st, e, n, normalized.path)

\* The tail of the loop body: normalize_validate_path, the tally, copy_entry.
FilterGeneral(st, e, n) ==
    LET normalized == normalize_validate_path(e.path) IN
    CASE normalized.kind = "Err" -> [st EXCEPT !.err = TRUE]
      [] normalized.kind = "Filtered" ->
           LET k == normalized.prefix IN
           [st EXCEPT !.filtered =
               IF k \in DOMAIN @ THEN [@ EXCEPT ![k] = @ + 1] ELSE MapInsert(@, k, 1)]
      [] OTHER -> copy_entry(st, e, n, normalized.path)

\* The relinking arm writing the link with its original target.
RelinkEntry_KeepTarget(st, e, n, target) ==
    [st EXCEPT !.dest = Append(@, OutEntry(e.path, e.type, e.mtime, target, n, 0))]

\* The arm for a 2nd (or 3rd, etc.) link into /sysroot: the link is written with
\* the first file outside of /sysroot as its target.
RelinkEntry(st, e, n, target) ==
    [st EXCEPT !.dest = Append(@, OutEntry(e.path, e.type, e.mtime,
                                           st.relocated[Components(target)], n, 0))]

\* The body of the loop of filter_tar for entry e, the n-th of the input.
FilterStep(st, e, n) ==
    LET is_modified == e.mtime > 0
        is_regular  == e.type = "Regular"
    IN
    IF UnderRepoPrefix(e.path)
    THEN IF is_modified /\ is_regular
         THEN [st EXCEPT !.pending =
                  MapInsert(@, Components(e.path), [mtime |-> e.mtime, body |-> n])]
         ELSE FilterGeneral(st, e, n)
    ELSE IF e.type = "Link" /\ is_modified
         THEN IF e.link = NoLink
              THEN [st EXCEPT !.err = TRUE]
              ELSE LET target == e.link IN
                   IF UnderRepoPrefix(target)
                   THEN IF Components(target) \in DOMAIN st.pending
                        THEN LET obj == st.pending[Components(target)] IN
                             [st EXCEPT
                                !.dest = Append(@, OutEntry(e.path, "Regular", obj.mtime,
                                                            NoLink, n, obj.body)),
                                !.pending = MapRemove(@, Components(target)),
                                !.relocated = MapInsert(@, Components(target), e.path)]
                        ELSE IF Components(target) \in DOMAIN st.relocated
                             THEN RelinkEntry(st, e, n, target)
                             ELSE st
                   ELSE FilterGeneral(st, e, n)
         ELSE FilterGeneral(st, e, n)

\* filter_tar is in its loop, or has returned Ok(filtered) or an error.
Running     == [kind |-> "running"]
FilterErr   == [kind |-> "Err"]
FilterOk(t) == [kind |-> "Ok", filtered |-> t]

TarIdle ==
    /\ tf_input = <<>>
    /\ tf_dest = <<>>
    /\ tf_pending = EmptyMap
    /\ tf_relocated = EmptyMap
    /\ tf_filtered = EmptyMap
    /\ tf_result = NotRun
TarInit ==
    /\ tf_input = <<>>
    /\ tf_dest = <<>>
    /\ tf_pending = EmptyMap
    /\ tf_relocated = EmptyMap
    /\ tf_filtered = EmptyMap
    /\ tf_result = Running

\* One turn of the loop of filter_tar: the next entry of the archive is read and
\* handled. An error ends the call.
FilterEntry ==
    /\ tf_result = Running
    /\ Len(tf_input) < MaxEntries
    /\ \E e \in TarEntries :
         LET st == FilterStep(FilterState(tf_dest, tf_pending, tf_relocated,
                                          tf_filtered, FALSE),
                              e, Len(tf_input) + 1)
         IN /\ tf_input' = Append(tf_input, e)
            /\ tf_dest' = st.dest
            /\ tf_pending' = st.pending
            /\ tf_relocated' = st.relocated
            /\ tf_filtered' = st.filtered
            /\ tf_result' = IF st.err THEN FilterErr ELSE Running
    /\ UNCHANGED <<pathVars, refVars, joinVars, progVars, commitVars, extVars>>

\* The archive yields a malformed entry (entry? fails).
FilterReadError ==
    /\ tf_result = Running
    /\ tf_result' = FilterErr
    /\ UNCHANGED <<tf_input, tf_dest, tf_pending, tf_relocated, tf_filtered,
                   pathVars, refVars, joinVars, progVars, commitVars, extVars>>

\* The archive ends: the output is flushed and the tally returned.
FilterEnd ==
    /\ tf_result = Running
    /\ tf_result' = FilterOk(tf_filtered)
    /\ UNCHANGED <<tf_input, tf_dest, tf_pending, tf_relocated, tf_filtered,
                   pathVars, refVars, joinVars, progVars, commitVars, extVars>>

\* ================================================================
\* write_tar (lib/src/tar/write.rs)
\* ================================================================

\* Bounds: the bytes the child writes to each of stdout and stderr, and the
\* bytes a pipe holds before a write blocks.
MaxOut == 3
PipeCap == 2

\* The bytes of the child's output: a space (white space) and a letter.
OutChars == {" ", "c"}
WhiteSpace == {" "}

\* str::trim: leading and trailing white space removed.
RECURSIVE TrimStart(_)
TrimStart(t) ==
    IF t # <<>> /\ Head(t) \in WhiteSpace THEN TrimStart(Tail(t)) ELSE t

RECURSIVE TrimEnd(_)
TrimEnd(t) ==
    IF t # <<>> /\ t[Len(t)] \in WhiteSpace THEN TrimEnd(SubSeq(t, 1, Len(t) - 1)) ELSE t

Trim(t) == TrimStart(TrimEnd(t))

\* The ostree child: running, exited with its status code, or killed; what it
\* still has to write to stdout and stderr, and all it ever set out to write.
Child(code, out, err) ==
    [state |-> "running", code |-> code,
     out_todo |-> out, err_todo |-> err, out_all |-> out, err_all |-> err]

NoChild == [state |-> "none"]

\* The tallies filter_tar_async may return.
Tallies == {"tally0", "tally1"}

\* The messages of the errors of write_tar.
FailedToCommit == <<"Failed", "to", "commit", "tar">>
FilterFailed   == <<"filter", "error">>
ReadFailed     == <<"read", "error">>
ProcessingTar  == <<"Processing", "tar", "via", "ostree">>
CopyingOutput  == <<"Copying", "child", "output">>

\* WriteTarResult { commit, filtered }
WriteTarResult(commit, filtered) == [commit |-> commit, filtered |-> filtered]

\* The end of write_tar with trim_end in place of trim.
Reconcile_TrimEnd(pc, e, filtered, bufs, copied) ==
    IF pc = "copy_ok"
    THEN IF copied
         THEN Ok(WriteTarResult(TrimEnd(bufs.out), filtered))
         ELSE Context(Err(<<ReadFailed>>), CopyingOutput)
    ELSE IF copied THEN Context(e, TrimEnd(bufs.err)) ELSE e

\* The end of write_tar, once output_copier has returned (copied: it returned
\* Ok): the Ok arm of the match and the final Ok(WriteTarResult), or the Err arm.
Reconcile(pc, e, filtered, bufs, copied) ==
    IF pc = "copy_ok"
    THEN IF copied
         THEN Ok(WriteTarResult(Trim(bufs.out), filtered))
         ELSE Context(Err(<<ReadFailed>>), CopyingOutput)
    ELSE IF copied THEN Context(e, Trim(bufs.err)) ELSE e

WtIdle ==
    /\ wt_pc = "idle"
    /\ wt_child = NoChild
    /\ wt_pipes = [out |-> <<>>, err |-> <<>>]
    /\ wt_bufs = [out |-> <<>>, err |-> <<>>, failed |-> FALSE]
    /\ wt_filter = Pending
    /\ wt_status = Pending
    /\ wt_err = NotRun
    /\ wt_result = Pending
    /\ wt_sepolicy = "none"

\* The scratch directory sepolicy_from_base made is removed when sepolicy is
\* dropped; without selinux or without a base there is none.
DropSepolicy(sepolicy) == IF sepolicy = "live" THEN "destroyed" ELSE sepolicy

\* Dropping the status future without killing the child.
DropStatus_NoKill(child) == child

\* Dropping the status future drops the child handle, which kills a child that
\* still runs (kill_on_drop).
DropStatus(child) ==
    IF child.state = "running" THEN [child EXCEPT !.state = "killed"] ELSE child

\* write_tar has spawned the child and built its futures: it is in try_join!.
WtInit ==
    /\ wt_pc = "join"
    /\ \E code \in {0, 1}, out \in SeqUpTo(OutChars, MaxOut), err \in SeqUpTo(OutChars, MaxOut) :
          wt_child = Child(code, out, err)
    /\ wt_pipes = [out |-> <<>>, err |-> <<>>]
    /\ wt_bufs = [out |-> <<>>, err |-> <<>>, failed |-> FALSE]
    /\ wt_filter = Pending
    /\ wt_status = Pending
    /\ wt_err = NotRun
    /\ wt_result = Pending
    /\ wt_sepolicy \in {"none", "live"}

AllButWt == <<pathVars, refVars, joinVars, progVars, commitVars, tarVars, restVars>>

\* The child writes a byte to stdout; the write blocks while the pipe is full.
ChildWriteOut ==
    /\ wt_child.state = "running"
    /\ wt_child.out_todo # <<>>
    /\ Len(wt_pipes.out) < PipeCap
    /\ wt_pipes' = [wt_pipes EXCEPT !.out = Append(@, Head(wt_child.out_todo))]
    /\ wt_child' = [wt_child EXCEPT !.out_todo = Tail(@)]
    /\ UNCHANGED <<wt_pc, wt_bufs, wt_filter, wt_status, wt_err, wt_result, wt_sepolicy, AllButWt>>

\* The child writes a byte to stderr; the write blocks while the pipe is full.
ChildWriteErr ==
    /\ wt_child.state = "running"
    /\ wt_child.err_todo # <<>>
    /\ Len(wt_pipes.err) < PipeCap
    /\ wt_pipes' = [wt_pipes EXCEPT !.err = Append(@, Head(wt_child.err_todo))]
    /\ wt_child' = [wt_child EXCEPT !.err_todo = Tail(@)]
    /\ UNCHANGED <<wt_pc, wt_bufs, wt_filter, wt_status, wt_err, wt_result, wt_sepolicy, AllButWt>>

\* The child has written all its output and exits with its status.
ChildExit ==
    /\ wt_child.state = "running"
    /\ wt_child.out_todo = <<>>
    /\ wt_child.err_todo = <<>>
    /\ wt_child' = [wt_child EXCEPT !.state = "exited"]
    /\ UNCHANGED <<wt_pc, wt_pipes, wt_bufs, wt_filter, wt_status, wt_err, wt_result, wt_sepolicy, AllButWt>>

\* filtered_result (filter_tar_async), polled by try_join!, completes.
FilterCompletes ==
    /\ wt_pc = "join"
    /\ wt_filter = Pending
    /\ \E r \in {Ok(t) : t \in Tallies} \cup {Err(<<FilterFailed>>)} : wt_filter' = r
    /\ UNCHANGED <<wt_pc, wt_child, wt_pipes, wt_bufs, wt_status, wt_err, wt_result, wt_sepolicy, AllButWt>>

\* status, polled by try_join!, completes: r.wait() has the exit status.
StatusCompletes ==
    /\ wt_pc = "join"
    /\ wt_status = Pending
    /\ wt_child.state = "exited"
    /\ wt_status' = IF wt_child.code = 0 THEN Ok("unit") ELSE Err(<<FailedToCommit>>)
    /\ UNCHANGED <<wt_pc, wt_child, wt_pipes, wt_bufs, wt_filter, wt_err, wt_result, wt_sepolicy, AllButWt>>

\* try_join!(status, filtered_result) returns: Ok when both are Ok, the error of
\* a failed one as soon as there is one. The futures are dropped; dropping status
\* drops the child handle, which kills a child that still runs (kill_on_drop).
\* write_tar goes on to await output_copier.
JoinReturns ==
    /\ wt_pc = "join"
    /\ \/ /\ wt_status # Pending /\ wt_status.ok
          /\ wt_filter # Pending /\ wt_filter.ok
          /\ wt_pc' = "copy_ok"
          /\ wt_err' = wt_err
       \/ /\ \E f \in {wt_status, wt_filter} :
                /\ f # Pending
                /\ ~f.ok
                /\ wt_err' = Context(f, ProcessingTar)
          /\ wt_pc' = "copy_err"
    /\ wt_child' = DropStatus(wt_child)
    /\ UNCHANGED <<wt_pipes, wt_bufs, wt_filter, wt_status, wt_result, wt_sepolicy, AllButWt>>

\* output_copier, once awaited, reads a byte of stdout or stderr.
CopierRead ==
    /\ wt_pc \in {"copy_ok", "copy_err"}
    /\ \/ /\ wt_pipes.out # <<>>
          /\ wt_bufs' = [wt_bufs EXCEPT !.out = Append(@, Head(wt_pipes.out))]
          /\ wt_pipes' = [wt_pipes EXCEPT !.out = Tail(@)]
       \/ /\ wt_pipes.err # <<>>
          /\ wt_bufs' = [wt_bufs EXCEPT !.err = Append(@, Head(wt_pipes.err))]
          /\ wt_pipes' = [wt_pipes EXCEPT !.err = Tail(@)]
    /\ UNCHANGED <<wt_pc, wt_child, wt_filter, wt_status, wt_err, wt_result, wt_sepolicy, AllButWt>>

\* output_copier returns an error (a failed read, output that is not UTF-8) and
\* write_tar returns.
CopierFails ==
    /\ wt_pc \in {"copy_ok", "copy_err"}
    /\ wt_result' = Reconcile(wt_pc, wt_err, "none", wt_bufs, FALSE)
    /\ wt_bufs' = [wt_bufs EXCEPT !.failed = TRUE]
    /\ wt_pc' = "done"
    /\ wt_sepolicy' = DropSepolicy(wt_sepolicy)
    /\ UNCHANGED <<wt_child, wt_pipes, wt_filter, wt_status, wt_err, AllButWt>>

\* output_copier has read both pipes to their end (the child is gone and the
\* pipes are empty) and write_tar returns.
CopierDone ==
    /\ wt_pc \in {"copy_ok", "copy_err"}
    /\ wt_child.state # "running"
    /\ wt_pipes.out = <<>>
    /\ wt_pipes.err = <<>>
    /\ wt_result' = Reconcile(wt_pc, wt_err, IF wt_filter.ok THEN wt_filter.v ELSE "none",
                              wt_bufs, TRUE)
    /\ wt_pc' = "done"
    /\ wt_sepolicy' = DropSepolicy(wt_sepolicy)
    /\ UNCHANGED <<wt_child, wt_pipes, wt_bufs, wt_filter, wt_status, wt_err, AllButWt>>

\* ================================================================
\* merge_default_container_proxy_opts_with_isolation (container/mod.rs)
\* ================================================================

\* The number of times the merge is applied to the same configuration.
MaxMerges == 2

None    == [some |-> FALSE]
Some(v) == [some |-> TRUE, v |-> v]

\* The fields of containers_image_proxy::ImageProxyConfig the merge reads or
\* writes.
ImageProxyConfig(auth_anonymous, authfile, auth_data, skopeo_cmd) ==
    [auth_anonymous |-> auth_anonymous, authfile |-> authfile,
     auth_data |-> auth_data, skopeo_cmd |-> skopeo_cmd]

UserAuthfile   == "auth.json"         \* an authfile path the caller configured
GlobalAuthfile == "global-auth.json"  \* the path the global lookup returns
UserAuthData   == "auth-data"         \* a file the caller opened for auth_data
IsolationUsers == {"nobody", "foo"}

\* An open std::fs::File, identified by the path it was opened from.
File(path) == [file |-> path]

\* std::process::Command values: one the caller configured, and the one
\* isolation::unprivileged_subprocess(binary, user) builds.
ExplicitCmd == [program |-> "skopeo", as_user |-> None]
unprivileged_subprocess(binary, user) == [program |-> binary, as_user |-> Some(user)]

LookupFailed == "global authfile lookup failed"
OpenFailed   == "No such file or directory"

\* The environment: what get_global_authfile_path() returns, and whether
\* File::open succeeds.
MergeEnvs == [lookup : {"found", "none", "err"}, opens : BOOLEAN]

get_global_authfile_path(env) ==
    CASE env.lookup = "found" -> Ok(Some(GlobalAuthfile))
      [] env.lookup = "none"  -> Ok(None)
      [] OTHER                -> Err(<<LookupFailed>>)

\* let auth_specified = ...
AuthSpecified(config) ==
    config.auth_anonymous \/ config.authfile.some \/ config.auth_data.some

\* An outcome of the merge, or of a part of it: what is returned, *config as
\* it then is, and *config as it was when the authentication defaults had
\* been dealt with.
MergeOutcome(ret, cfg, after_auth) == [ret |-> ret, cfg |-> cfg, after_auth |-> after_auth]

\* AdoptGlobal without the anonymous fallback.
AdoptGlobal_NoFallback(config, env) ==
    LET g == get_global_authfile_path(env)
    IN  IF ~g.ok
        THEN MergeOutcome(g, config, config)
        ELSE LET c == [config EXCEPT !.authfile = g.v]
             IN  MergeOutcome(Ok("unit"), c, c)

\* The body of `if !auth_specified`: adopt the global auth file, or force
\* anonymous pulls when there is none.  The `?` leaves *config untouched.
AdoptGlobal(config, env) ==
    LET g == get_global_authfile_path(env)
    IN  IF ~g.ok
        THEN MergeOutcome(g, config, config)
        ELSE LET c1 == [config EXCEPT !.authfile = g.v]
                 c2 == IF ~c1.authfile.some
                       THEN [c1 EXCEPT !.auth_anonymous = TRUE]
                       ELSE c1
             IN  MergeOutcome(Ok("unit"), c2, c2)

\* The body of `if let Some(user) = isolation_user`: authfile.take(), open
\* it into auth_data, set the unprivileged command.  A failing File::open
\* returns after the take().
Isolate(config, user, env) ==
    LET taken == [config EXCEPT !.authfile = None]
        cmd   == Some(unprivileged_subprocess("skopeo", user))
    IN  IF config.authfile.some
        THEN IF env.opens
             THEN MergeOutcome(Ok("unit"),
                      [taken EXCEPT !.auth_data = Some(File(config.authfile.v)),
                                    !.skopeo_cmd = cmd],
                      config)
             ELSE MergeOutcome(Err(<<OpenFailed>>), taken, config)
        ELSE MergeOutcome(Ok("unit"), [config EXCEPT !.skopeo_cmd = cmd], config)

\* The merge looking up the global auth file whatever the configuration
\* specifies.
merge_AlwaysLookup(config, isolation_user, env) ==
    LET a    == AdoptGlobal(config, env)
        user == IF ~a.cfg.skopeo_cmd.some THEN isolation_user ELSE None
    IN  IF ~a.ret.ok THEN a
        ELSE IF user.some THEN Isolate(a.cfg, user.v, env) ELSE a

\* The merge applying the isolation whatever skopeo_cmd holds.
merge_IsolateAlways(config, isolation_user, env) ==
    LET a == IF AuthSpecified(config)
             THEN MergeOutcome(Ok("unit"), config, config)
             ELSE AdoptGlobal(config, env)
    IN  IF ~a.ret.ok THEN a
        ELSE IF isolation_user.some THEN Isolate(a.cfg, isolation_user.v, env) ELSE a

merge_default_container_proxy_opts_with_isolation(config, isolation_user, env) ==
    LET a    == IF AuthSpecified(config)
                THEN MergeOutcome(Ok("unit"), config, config)
                ELSE AdoptGlobal(config, env)
        \* config.skopeo_cmd.is_none().then_some(isolation_user).flatten()
        user == IF ~a.cfg.skopeo_cmd.some THEN isolation_user ELSE None
    IN  IF ~a.ret.ok THEN a
        ELSE IF user.some THEN Isolate(a.cfg, user.v, env) ELSE a

MgIdle ==
    /\ mg_init = NotRun
    /\ mg_cfg = NotRun
    /\ mg_user = None
    /\ mg_env = NotRun
    /\ mg_res = <<>>

MgInit ==
    \E anon \in BOOLEAN, authfile \in {None, Some(UserAuthfile)},
       auth_data \in {None, Some(File(UserAuthData))},
       skopeo_cmd \in {None, Some(ExplicitCmd)},
       user \in {None} \cup {Some(u) : u \in IsolationUsers}, env \in MergeEnvs :
        /\ mg_init = ImageProxyConfig(anon, authfile, auth_data, skopeo_cmd)
        /\ mg_cfg = mg_init
        /\ mg_user = user
        /\ mg_env = env
        /\ mg_res = <<>>

AllButMg ==
    <<pathVars, refVars, joinVars, progVars, commitVars, tarVars, wtVars, mdVars, rpVars,
      pxVars, dgVars, bsVars, faVars>>

\* One call of the merge on the caller's configuration.
Merge ==
    /\ mg_cfg # NotRun
    /\ Len(mg_res) < MaxMerges
    /\ LET r == merge_default_container_proxy_opts_with_isolation(mg_cfg, mg_user, mg_env)
       IN  /\ mg_res' = Append(mg_res, r)
           /\ mg_cfg' = r.cfg
    /\ UNCHANGED <<mg_init, mg_user, mg_env, AllButMg>>

\* ================================================================
\* ManifestDiff::new (container/mod.rs)
\* ================================================================

\* The longest list of layers of a manifest.
MaxManifestLayers == 3

\* Layer digests; they are compared as the digests' strings are.
Digests == {1, 2, 3}

\* An oci_spec Descriptor: its digest, and pos standing for everything else
\* that tells the descriptors of one manifest apart.
Descriptor(digest, pos) == [digest |-> digest, pos |-> pos]

\* The layers() of a manifest that lists the digests ds.
ManifestLayers(ds) == [i \in 1..Len(ds) |-> Descriptor(ds[i], i)]

\* layers().iter().map(|l| (l.digest(), l)).collect::<HashMap<_, _>>(): a
\* later layer replaces an earlier one of the same digest.
RECURSIVE CollectLayers(_, _, _)
CollectLayers(layers, i, map) ==
    IF i > Len(layers) THEN map
    ELSE CollectLayers(layers, i + 1, MapInsert(map, layers[i].digest, layers[i]))

\* The orders a HashMap over the keys K may be iterated in.
IterOrders(K) ==
    {o \in [1..Cardinality(K) -> K] : \A k \in K : \E i \in DOMAIN o : o[i] = k}

\* for (blobid, &descriptor) in map.iter() { if !other.contains_key(blobid) { v.push(descriptor) } }
RECURSIVE PushMissing(_, _, _, _, _)
PushMissing(map, other, order, i, v) ==
    IF i > Len(order) THEN v
    ELSE PushMissing(map, other, order, i + 1,
                     IF order[i] \notin DOMAIN other
                     THEN Append(v, map[order[i]])
                     ELSE v)

\* Insert d into the sorted v behind every element whose digest is not greater.
RECURSIVE InsertByDigest(_, _)
InsertByDigest(v, d) ==
    IF v = <<>> THEN <<d>>
    ELSE IF v[Len(v)].digest <= d.digest
         THEN Append(v, d)
         ELSE Append(InsertByDigest(SubSeq(v, 1, Len(v) - 1), d), v[Len(v)])

\* v.sort_by(|a, b| a.digest().cmp(b.digest())): a stable sort.
RECURSIVE SortFrom(_, _, _)
SortFrom(v, i, acc) ==
    IF i > Len(v) THEN acc ELSE SortFrom(v, i + 1, InsertByDigest(acc, v[i]))
SortByDigest(v) == SortFrom(v, 1, <<>>)

\* ManifestDiff::new that leaves the two lists in iteration order.
ManifestDiff_new_Unsorted(src, dest, src_order, dest_order) ==
    LET src_layers  == CollectLayers(src, 1, EmptyMap)
        dest_layers == CollectLayers(dest, 1, EmptyMap)
    IN  [from |-> src, to |-> dest,
         removed |-> PushMissing(src_layers, dest_layers, src_order, 1, <<>>),
         added   |-> PushMissing(dest_layers, src_layers, dest_order, 1, <<>>)]

\* ManifestDiff::new whose second loop looks the digest up in dest_layers.
ManifestDiff_new_AddedVsDest(src, dest, src_order, dest_order) ==
    LET src_layers  == CollectLayers(src, 1, EmptyMap)
        dest_layers == CollectLayers(dest, 1, EmptyMap)
    IN  [from |-> src, to |-> dest,
         removed |-> SortByDigest(PushMissing(src_layers, dest_layers, src_order, 1, <<>>)),
         added   |-> SortByDigest(PushMissing(dest_layers, dest_layers, dest_order, 1, <<>>))]

\* ManifestDiff::new(src, dest), the two maps being iterated in src_order and
\* dest_order.
ManifestDiff_new(src, dest, src_order, dest_order) ==
    LET src_layers  == CollectLayers(src, 1, EmptyMap)
        dest_layers == CollectLayers(dest, 1, EmptyMap)
    IN  [from |-> src, to |-> dest,
         removed |-> SortByDigest(PushMissing(src_layers, dest_layers, src_order, 1, <<>>)),
         added   |-> SortByDigest(PushMissing(dest_layers, src_layers, dest_order, 1, <<>>))]

DiffCalls == {"ab", "ba", "aa"}

MdIdle ==
    /\ md_a = <<>>
    /\ md_b = <<>>
    /\ md_out = [c \in DiffCalls |-> NotRun]

MdInit ==
    \E da \in SeqUpTo(Digests, MaxManifestLayers),
       db \in SeqUpTo(Digests, MaxManifestLayers) :
        /\ md_a = ManifestLayers(da)
        /\ md_b = ManifestLayers(db)
        /\ md_out = [c \in DiffCalls |-> NotRun]

AllButMd ==
    <<pathVars, refVars, joinVars, progVars, commitVars, tarVars, wtVars, mgVars, rpVars,
      pxVars, dgVars, bsVars, faVars>>

\* One call ManifestDiff::new(src, dest) on two of the manifests.
Diff ==
    \E c \in DiffCalls :
        /\ md_out[c] = NotRun
        /\ LET src  == IF c = "ba" THEN md_b ELSE md_a
               dest == IF c = "ab" THEN md_b ELSE md_a
           IN  \E so \in IterOrders({l.digest : l \in {src[i] : i \in DOMAIN src}}),
                  do \in IterOrders({l.digest : l \in {dest[i] : i \in DOMAIN dest}}) :
                   md_out' = [md_out EXCEPT ![c] = ManifestDiff_new(src, dest, so, do)]
        /\ UNCHANGED <<md_a, md_b, AllButMd>>

\* ================================================================
\* Parsing of arbitrary reference strings (container/mod.rs)
\* ================================================================

\* The transport tags and the schemes the parsers know.
TransportTags == {"registry", "docker", "oci", "oci-archive", "containers-storage"}
Schemes ==
    {"ostree-image-signed", "ostree-unverified-image", "ostree-unverified-registry",
     "ostree-remote-registry", "ostree-remote-image"}

\* Every string of up to three tokens.
ShortInputs == SeqUpTo(TransportTags \cup Schemes \cup NameChars, 3)

\* Longer strings: an optional scheme, ':' and remote part, then an optional
\* tag with or without its ':', then a name with or without a leading "//".
\* "a" stands where a tag or scheme is expected for an unknown one.
InputHeads ==
    {<<>>}
    \cup {<<sc, ":">> : sc \in Schemes \cup {"a"}}
    \cup {<<sc, ":">> \o r \o <<":">> :
            sc \in {"ostree-remote-registry", "ostree-remote-image"}, r \in Names}
InputTails ==
    {<<>>}
    \cup {<<t>> \o sep \o sl \o n :
            t \in TransportTags \cup {"a"}, sep \in {<<>>, <<":">>},
            sl \in {<<>>, <<"/", "/">>}, n \in Names}
    \cup Names
ParseInputs == ShortInputs \cup {h \o t : h \in InputHeads, t \in InputTails}

Parsers == {"img", "ost"}

RpIdle ==
    /\ rp_in = <<>>
    /\ rp_img = NotRun
    /\ rp_ost = NotRun
    /\ rp_str = [k \in Parsers |-> NotRun]
RpInit ==
    /\ rp_in \in ParseInputs
    /\ rp_img = NotRun
    /\ rp_ost = NotRun
    /\ rp_str = [k \in Parsers |-> NotRun]

AllButRp ==
    <<pathVars, refVars, joinVars, progVars, commitVars, tarVars, wtVars, mgVars, mdVars,
      pxVars, dgVars, bsVars, faVars>>

\* ImageReference::try_from(the string)
ParseImageReference ==
    /\ rp_img = NotRun
    /\ rp_img' = ImageReferenceTryFrom(rp_in)
    /\ UNCHANGED <<rp_in, rp_ost, rp_str, AllButRp>>

\* OstreeImageReference::try_from(the string)
ParseOstreeImageReference ==
    /\ rp_ost = NotRun
    /\ rp_ost' = OstreeImageReferenceTryFrom(rp_in)
    /\ UNCHANGED <<rp_in, rp_img, rp_str, AllButRp>>

\* to_string() of a value a parse has returned
PrintParsed ==
    \E k \in Parsers :
        LET r == IF k = "img" THEN rp_img ELSE rp_ost
        IN  /\ r # NotRun
            /\ r.ok
            /\ rp_str[k] = NotRun
            /\ rp_str' = [rp_str EXCEPT ![k] =
                              [kind |-> "Str",
                               s |-> IF k = "img" THEN ImageReferenceDisplay(r.v)
                                     ELSE OstreeImageReferenceDisplay(r.v)]]
            /\ UNCHANGED <<rp_in, rp_img, rp_ost, AllButRp>>

\* ================================================================
\* fetch_manifest and fetch_manifest_and_config (container/unencapsulate.rs)
\* ================================================================

\* The image references the functions are called with.
FetchRefs == {ImageReference(t, n) : t \in Transports, n \in Names \ {<<>>}}

\* The requests of the proxy protocol the functions send.
OpenImageReq(name)  == [req |-> "open-image", arg |-> name]
FetchManifestReq(h) == [req |-> "fetch-manifest", arg |-> h]
FetchConfigReq(h)   == [req |-> "fetch-config", arg |-> h]
CloseImageReq(h)    == [req |-> "close-image", arg |-> h]

\* The handle open_image returns.
ImageHandle == "oi"

ProxyError == "proxy request failed"

PxIdle ==
    /\ px_op = "none"
    /\ px_ref = NotRun
    /\ px_pc = "idle"
    /\ px_proxy = "none"
    /\ px_log = <<>>
    /\ px_open = {}
    /\ px_result = Pending

PxInit ==
    /\ px_op \in {"fetch_manifest", "fetch_manifest_and_config"}
    /\ px_ref \in FetchRefs
    /\ px_pc = "new"
    /\ px_proxy = "none"
    /\ px_log = <<>>
    /\ px_open = {}
    /\ px_result = Pending

AllButPx ==
    <<pathVars, refVars, joinVars, progVars, commitVars, tarVars, wtVars, mgVars, mdVars,
      rpVars, dgVars, bsVars, faVars>>

\* A `?` on a failed await: the function returns the error; the proxy, a
\* local of the function, is dropped if it was made.
FetchFails ==
    /\ px_pc' = "done"
    /\ px_result' = Err(<<ProxyError>>)
    /\ px_proxy' = IF px_proxy = "running" THEN "dropped" ELSE px_proxy

\* ImageProxy::new().await?
ProxyNew ==
    /\ px_pc = "new"
    /\ \/ /\ px_proxy' = "running"
          /\ px_pc' = "open"
          /\ UNCHANGED px_result
       \/ FetchFails
    /\ UNCHANGED <<px_op, px_ref, px_log, px_open, AllButPx>>

\* proxy.open_image(&imgref.imgref.to_string()).await?
OpenImage ==
    /\ px_pc = "open"
    /\ px_log' = Append(px_log, OpenImageReq(ImageReferenceDisplay(px_ref)))
    /\ \/ /\ px_open' = px_open \cup {ImageHandle}
          /\ px_pc' = "fetch_manifest"
          /\ UNCHANGED <<px_result, px_proxy>>
       \/ FetchFails /\ UNCHANGED px_open
    /\ UNCHANGED <<px_op, px_ref, AllButPx>>

\* proxy.fetch_manifest(oi).await?
FetchManifest ==
    /\ px_pc = "fetch_manifest"
    /\ px_log' = Append(px_log, FetchManifestReq(ImageHandle))
    /\ \/ /\ px_pc' = IF px_op = "fetch_manifest" THEN "close" ELSE "fetch_config"
          /\ UNCHANGED <<px_result, px_proxy>>
       \/ FetchFails
    /\ UNCHANGED <<px_op, px_ref, px_open, AllButPx>>

\* fetch_manifest_impl: proxy.close_image(oi).await?; Ok((manifest, digest))
CloseImage ==
    /\ px_pc = "close"
    /\ px_log' = Append(px_log, CloseImageReq(ImageHandle))
    /\ \/ /\ px_open' = px_open \ {ImageHandle}
          /\ px_pc' = "done"
          /\ px_result' = Ok("manifest")
          /\ px_proxy' = "dropped"
       \/ FetchFails /\ UNCHANGED px_open
    /\ UNCHANGED <<px_op, px_ref, AllButPx>>

\* fetch_manifest_and_config: proxy.fetch_config(oi).await?;
\* Ok((manifest, digest, config))
FetchConfig ==
    /\ px_pc = "fetch_config"
    /\ px_log' = Append(px_log, FetchConfigReq(ImageHandle))
    /\ \/ /\ px_pc' = "done"
          /\ px_result' = Ok("manifest and config")
          /\ px_proxy' = "dropped"
       \/ FetchFails
    /\ UNCHANGED <<px_op, px_ref, px_open, AllButPx>>

\* ================================================================
\* The counters of the /var walk (commit.rs)
\* ================================================================

\* The number of entries a walk meets.
MaxVisited == 22

DgIdle == dg_files = 0 /\ dg_others = 0 /\ dg_count = 0 /\ dg_diags = {}

\* process_var: let mut error_count = 0, before the walk.
DgInit == dg_files = 0 /\ dg_others = 0 /\ dg_count = 0 /\ dg_diags = {}

AllButDg ==
    <<pathVars, refVars, joinVars, progVars, commitVars, tarVars, wtVars, mgVars, mdVars,
      rpVars, pxVars, bsVars, faVars>>

\* The walk meets a foreign entry (continue) or a directory (recursion, which
\* shares error_count).
VisitOther ==
    /\ dg_files + dg_others < MaxVisited
    /\ dg_others' = dg_others + 1
    /\ UNCHANGED <<dg_files, dg_count, dg_diags, AllButDg>>

\* The walk meets an entry that is no directory: the else branch.
VisitFile ==
    /\ dg_files + dg_others < MaxVisited
    /\ dg_files' = dg_files + 1
    /\ dg_count' = dg_count + 1
    /\ dg_diags' = IF dg_count' < DiagLimit THEN dg_diags \cup {dg_files'} ELSE dg_diags
    /\ UNCHANGED <<dg_others, AllButDg>>

\* ================================================================
\* fetch_layer_decompress: the blob requested (container/unencapsulate.rs)
\* ================================================================

\* Bound: the layers of a manifest and the records of a converted-layer list.
MaxBlobLayers == 2

\* Media types: ImageLayerGzip, ImageLayer and one new_async_decompressor does
\* not handle.
MediaTypes == {"ImageLayerGzip", "ImageLayer", "ImageLayerZstd"}

\* A layer descriptor of the manifest, and a ConvertedLayerInfo record.
LayerDescriptor(digest, size, media_type) ==
    [digest |-> digest, size |-> size, media_type |-> media_type]

ManifestDescriptors ==
    {LayerDescriptor("sha256:m1", 1, "ImageLayerGzip"),
     LayerDescriptor("sha256:m2", 2, "ImageLayer"),
     LayerDescriptor("sha256:m3", 2, "ImageLayerZstd")}

ConvertedLayers ==
    {LayerDescriptor("sha256:c1", 3, "ImageLayer"),
     LayerDescriptor("sha256:c2", 4, "ImageLayerGzip"),
     LayerDescriptor("sha256:c3", 4, "ImageLayerZstd")}

\* The messages of the errors.
SkopeoTooOld   == <<"skopeo", "too", "old", "to", "pull", "from", "containers-storage">>
ExceedsDiffids == <<"blobid", "position", "exceeds", "diffid", "count">>
UnhandledLayer == <<"Unhandled", "layer", "type">>
GetBlobFailed  == <<"get_blob", "failed">>

\* proxy.get_blob(img, digest, size)
GetBlobReq(digest, size) == [req |-> "get-blob", digest |-> digest, size |-> size]

\* manifest.layers().iter().position(|x| x == layer).unwrap(), counted from 0.
LayerPosition(layers, layer) ==
    (CHOOSE i \in 1..Len(layers) :
        layers[i] = layer /\ \A j \in 1..(i - 1) : layers[j] # layer) - 1

\* new_async_decompressor
new_async_decompressor(media_type) ==
    CASE media_type = "ImageLayerGzip" -> Ok("GzipDecoder")
      [] media_type = "ImageLayer"     -> Ok("identity")
      [] OTHER                         -> Err(<<UnhandledLayer>>)

\* The rest of fetch_layer_decompress once the blob is chosen: the request, and
\* when the proxy answers it (answered) the decompressor and the total reported
\* with the progress.
FetchBlob(layer_index, blob, answered) ==
    [requests |-> <<GetBlobReq(blob.digest, blob.size)>>,
     res |-> IF ~answered THEN Err(<<GetBlobFailed>>)
             ELSE LET d == new_async_decompressor(blob.media_type) IN
                  IF d.ok
                  THEN Ok([decompressor |-> d.v, layer_index |-> layer_index,
                           total |-> blob.size])
                  ELSE d]

\* fetch_layer_decompress taking the descriptor of the manifest for every
\* transport.
fetch_layer_decompress_OwnDescriptor(layers, layer, layer_info, transport_src, answered) ==
    FetchBlob(LayerPosition(layers, layer), layer, answered)

\* fetch_layer_decompress
fetch_layer_decompress(layers, layer, layer_info, transport_src, answered) ==
    LET layer_index == LayerPosition(layers, layer) IN
    IF transport_src = "ContainerStorage"
    THEN IF ~layer_info.some
         THEN [requests |-> <<>>, res |-> Err(<<SkopeoTooOld>>)]
         ELSE IF layer_index >= Len(layer_info.v)
              THEN [requests |-> <<>>, res |-> Err(<<ExceedsDiffids>>)]
              ELSE FetchBlob(layer_index, layer_info.v[layer_index + 1], answered)
    ELSE FetchBlob(layer_index, layer, answered)

BsIdle ==
    /\ bs_in = NotRun
    /\ bs_out = Pending

\* The caller has a manifest, one of its layers, a transport and, or not, a list
\* of converted layers.
BsInit ==
    /\ \E layers \in SeqUpTo(ManifestDescriptors, MaxBlobLayers) \ {<<>>},
          info \in {None} \cup {Some(v) : v \in SeqUpTo(ConvertedLayers, MaxBlobLayers)},
          transport \in Transports :
          \E i \in 1..Len(layers) :
             bs_in = [layers |-> layers, layer |-> layers[i], layer_info |-> info,
                      transport_src |-> transport]
    /\ bs_out = Pending

AllButBs ==
    <<pathVars, refVars, joinVars, progVars, commitVars, tarVars, wtVars, mgVars, mdVars,
      rpVars, pxVars, dgVars, faVars>>

\* fetch_layer_decompress is called; the proxy answers get_blob or fails.
SelectBlob ==
    /\ bs_in # NotRun
    /\ bs_out = Pending
    /\ \E answered \in BOOLEAN :
         bs_out' = fetch_layer_decompress(bs_in.layers, bs_in.layer, bs_in.layer_info,
                                          bs_in.transport_src, answered)
    /\ UNCHANGED <<bs_in, AllButBs>>

\* ================================================================
\* filter_tar_async (tar/write.rs)
\* ================================================================

\* Bounds: the entries of the input, the pieces of output one entry gives, and
\* the pieces the duplex buffer holds (the code gives it 8192 bytes).
MaxInput == 4
MaxPieces == 3
DuplexCap == 2

FilterTally == "tally"
ParseError  == <<"tar", "parse", "error">>
WriteError  == <<"write", "error">>

\* The worker thread passes ownership of the input stream back to the caller.
PassBack_DropInThread(src) == "dropped"

PassBack(src) == "caller"

\* tokio::join!(tar_transformer, copier) is ready.
Joined(filter, copier) == filter # Pending /\ copier # Pending

\* let _v: u64 = v?; let (r, src) = r?; drop(src); r
AsyncResult(filter, copier) == IF copier.ok THEN filter ELSE copier

FaIdle ==
    /\ fa_todo = 0
    /\ fa_hold = 0
    /\ fa_buf = 0
    /\ fa_filter = Pending
    /\ fa_copier = Pending
    /\ fa_src = "none"
    /\ fa_result = Pending

\* filter_tar_async has spawned the worker thread and is in join!.
FaInit ==
    /\ fa_todo \in 0..MaxInput
    /\ fa_hold = 0
    /\ fa_buf = 0
    /\ fa_filter = Pending
    /\ fa_copier = Pending
    /\ fa_src = "thread"
    /\ fa_result = Pending

AllButFa ==
    <<pathVars, refVars, joinVars, progVars, commitVars, tarVars, wtVars, mgVars, mdVars,
      rpVars, pxVars, dgVars, bsVars>>

\* filter_tar reads an entry of the input, which gives it no output (the entry
\* is filtered) or some pieces to write.
WorkerReads ==
    /\ fa_filter = Pending
    /\ fa_hold = 0
    /\ fa_todo > 0
    /\ fa_todo' = fa_todo - 1
    /\ fa_hold' \in 0..MaxPieces
    /\ UNCHANGED <<fa_buf, fa_filter, fa_copier, fa_src, fa_result, AllButFa>>

\* filter_tar writes to the duplex; the write blocks while the buffer is full.
WorkerWrites ==
    /\ fa_filter = Pending
    /\ fa_hold > 0
    /\ fa_buf < DuplexCap
    /\ fa_buf' = fa_buf + 1
    /\ fa_hold' = fa_hold - 1
    /\ UNCHANGED <<fa_todo, fa_filter, fa_copier, fa_src, fa_result, AllButFa>>

\* filter_tar returns at the end of the input, or with an error for the next
\* entry; the closure returns (r, src) and the write half of the duplex is
\* dropped.
WorkerReturns ==
    /\ fa_filter = Pending
    /\ fa_hold = 0
    /\ \/ fa_todo = 0 /\ fa_filter' = Ok(FilterTally)
       \/ fa_todo > 0 /\ fa_filter' = Err(<<ParseError>>)
    /\ fa_src' = PassBack(fa_src)
    /\ UNCHANGED <<fa_todo, fa_hold, fa_buf, fa_copier, fa_result, AllButFa>>

\* copier moves a piece from the duplex to the destination, or the write to
\* the destination fails and copier returns the error.
CopierCopies ==
    /\ fa_copier = Pending
    /\ fa_result = Pending
    /\ fa_buf > 0
    /\ fa_buf' = fa_buf - 1
    /\ fa_copier' \in {Pending, Err(<<WriteError>>)}
    /\ UNCHANGED <<fa_todo, fa_hold, fa_filter, fa_src, fa_result, AllButFa>>

\* copier reads the end of the duplex, the write half dropped and the buffer
\* empty, and flushes the destination, which succeeds or fails.
CopierEnds ==
    /\ fa_copier = Pending
    /\ fa_result = Pending
    /\ fa_filter # Pending
    /\ fa_buf = 0
    /\ fa_copier' \in {Ok("copied"), Err(<<WriteError>>)}
    /\ UNCHANGED <<fa_todo, fa_hold, fa_buf, fa_filter, fa_src, fa_result, AllButFa>>

\* join! returns; the input stream is dropped and the result passed back.
AsyncReturns ==
    /\ fa_result = Pending
    /\ Joined(fa_filter, fa_copier)
    /\ fa_result' = AsyncResult(fa_filter, fa_copier)
    /\ fa_src' = "dropped"
    /\ UNCHANGED <<fa_todo, fa_hold, fa_buf, fa_filter, fa_copier, AllButFa>>

\* ================================================================
\* Specifications
\* ================================================================

InitPath == PathInit /\ RefIdle /\ JoinIdle /\ ProgIdle /\ CommitIdle /\ TarIdle /\ WtIdle /\ MgIdle /\ MdIdle /\ RpIdle /\ PxIdle /\ DgIdle /\ BsIdle /\ FaIdle
NextPath == NormalizePath
SpecPath == InitPath /\ [][NextPath]_vars

InitRef == RefInit /\ PathIdle /\ JoinIdle /\ ProgIdle /\ CommitIdle /\ TarIdle /\ WtIdle /\ MgIdle /\ MdIdle /\ RpIdle /\ PxIdle /\ DgIdle /\ BsIdle /\ FaIdle
NextRef == PrintRef \/ ParseRef
SpecRef == InitRef /\ [][NextRef]_vars

InitJoin == JoinInit /\ PathIdle /\ RefIdle /\ ProgIdle /\ CommitIdle /\ TarIdle /\ WtIdle /\ MgIdle /\ MdIdle /\ RpIdle /\ PxIdle /\ DgIdle /\ BsIdle /\ FaIdle
NextJoin == WorkerCompletes \/ DriverCompletes \/ JoinFetchReturns
SpecJoin == InitJoin /\ [][NextJoin]_vars

InitProgress == ProgInit /\ PathIdle /\ RefIdle /\ JoinIdle /\ CommitIdle /\ TarIdle /\ WtIdle /\ MgIdle /\ MdIdle /\ RpIdle /\ PxIdle /\ DgIdle /\ BsIdle /\ FaIdle
NextProgress ==
    \/ FetchLayerDecompress \/ PollRead \/ ForwardProgress \/ DropReader \/ ForwarderEnds
    \/ ProxyDriverCompletes \/ ReturnedDriverCompletes
SpecProgress == InitProgress /\ [][NextProgress]_vars

InitCommit == CommitInit /\ PathIdle /\ RefIdle /\ JoinIdle /\ ProgIdle /\ TarIdle /\ WtIdle /\ MgIdle /\ MdIdle /\ RpIdle /\ PxIdle /\ DgIdle /\ BsIdle /\ FaIdle
NextCommit == CreateEntry \/ Prepare \/ PrepareAgain
SpecCommit == InitCommit /\ [][NextCommit]_vars

InitTar == TarInit /\ PathIdle /\ RefIdle /\ JoinIdle /\ ProgIdle /\ CommitIdle /\ WtIdle /\ MgIdle /\ MdIdle /\ RpIdle /\ PxIdle /\ DgIdle /\ BsIdle /\ FaIdle
NextTar == FilterEntry \/ FilterReadError \/ FilterEnd
SpecTar == InitTar /\ [][NextTar]_vars

InitWriteTar ==
    WtInit /\ PathIdle /\ RefIdle /\ JoinIdle /\ ProgIdle /\ CommitIdle /\ TarIdle /\ MgIdle /\ MdIdle /\ RpIdle /\ PxIdle /\ DgIdle /\ BsIdle /\ FaIdle
NextWriteTar ==
    \/ ChildWriteOut \/ ChildWriteErr \/ ChildExit
    \/ FilterCompletes \/ StatusCompletes \/ JoinReturns
    \/ CopierRead \/ CopierFails \/ CopierDone
SpecWriteTar == InitWriteTar /\ [][NextWriteTar]_vars

InitMerge ==
    MgInit /\ PathIdle /\ RefIdle /\ JoinIdle /\ ProgIdle /\ CommitIdle /\ TarIdle /\ WtIdle
           /\ MdIdle /\ RpIdle /\ PxIdle /\ DgIdle /\ BsIdle /\ FaIdle
NextMerge == Merge
SpecMerge == InitMerge /\ [][NextMerge]_vars

InitDiff ==
    MdInit /\ PathIdle /\ RefIdle /\ JoinIdle /\ ProgIdle /\ CommitIdle /\ TarIdle /\ WtIdle
           /\ MgIdle /\ RpIdle /\ PxIdle /\ DgIdle /\ BsIdle /\ FaIdle
NextDiff == Diff
SpecDiff == InitDiff /\ [][NextDiff]_vars

InitParse ==
    RpInit /\ PathIdle /\ RefIdle /\ JoinIdle /\ ProgIdle /\ CommitIdle /\ TarIdle /\ WtIdle
           /\ MgIdle /\ MdIdle /\ PxIdle /\ DgIdle /\ BsIdle /\ FaIdle
NextParse == ParseImageReference \/ ParseOstreeImageReference \/ PrintParsed
SpecParse == InitParse /\ [][NextParse]_vars

InitFetch ==
    PxInit /\ PathIdle /\ RefIdle /\ JoinIdle /\ ProgIdle /\ CommitIdle /\ TarIdle /\ WtIdle
           /\ MgIdle /\ MdIdle /\ RpIdle /\ DgIdle /\ BsIdle /\ FaIdle
NextFetch == ProxyNew \/ OpenImage \/ FetchManifest \/ CloseImage \/ FetchConfig
SpecFetch == InitFetch /\ [][NextFetch]_vars

InitDiag ==
    DgInit /\ PathIdle /\ RefIdle /\ JoinIdle /\ ProgIdle /\ CommitIdle /\ TarIdle /\ WtIdle
           /\ MgIdle /\ MdIdle /\ RpIdle /\ PxIdle /\ BsIdle /\ FaIdle
NextDiag == VisitOther \/ VisitFile
SpecDiag == InitDiag /\ [][NextDiag]_vars

InitBlob ==
    BsInit /\ PathIdle /\ RefIdle /\ JoinIdle /\ ProgIdle /\ CommitIdle /\ TarIdle /\ WtIdle
           /\ MgIdle /\ MdIdle /\ RpIdle /\ PxIdle /\ DgIdle /\ FaIdle
NextBlob == SelectBlob
SpecBlob == InitBlob /\ [][NextBlob]_vars

InitFilterAsync ==
    FaInit /\ PathIdle /\ RefIdle /\ JoinIdle /\ ProgIdle /\ CommitIdle /\ TarIdle /\ WtIdle
           /\ MgIdle /\ MdIdle /\ RpIdle /\ PxIdle /\ DgIdle /\ BsIdle
NextFilterAsync ==
    \/ WorkerReads \/ WorkerWrites \/ WorkerReturns
    \/ CopierCopies \/ CopierEnds \/ AsyncReturns
SpecFilterAsync == InitFilterAsync /\ [][NextFilterAsync]_vars

\* The worker thread runs, and the runtime polls the futures of join!.
SpecFilterAsyncFair ==
    /\ InitFilterAsync
    /\ [][NextFilterAsync]_vars
    /\ WF_vars(WorkerReads) /\ WF_vars(WorkerWrites) /\ WF_vars(WorkerReturns)
    /\ WF_vars(CopierCopies) /\ WF_vars(CopierEnds) /\ WF_vars(AsyncReturns)

\* ================================================================
\* Properties
\* ================================================================

\* The set of elements of a sequence.
Range(s) == {s[i] : i \in 1..Len(s)}

\* ---------------------------------------------------------------- C1
\* C1: normalize_validate_path fails for every path that has a parent-dir
\* ('..') component, wherever the component stands and whatever the first normal
\* component of the path is.
C1_UplinkAlwaysFails ==
    (np_out # NotRun /\ ParentDir \in Range(Components(np_in)))
        => np_out.kind = "Err"

\* ---------------------------------------------------------------- C3
\* The remote name of x, when x is signed by an ostree remote, has no ':'.
RemoteHasNoColon(x) ==
    x.sigverify.sig = "OstreeRemote" => ~HasColon(x.sigverify.remote)

\* C3 (as claimed): for every OstreeImageReference x with a non-empty image
\* name, whatever its remote name, parsing the printed form of x succeeds and
\* yields x.
C3_RoundTripAnyRemote ==
    (ref_parsed # NotRun /\ ref_x.imgref.name # <<>>)
        => ref_parsed = ParseOk(ref_x)

\* C3 (amended): for every OstreeImageReference x with a non-empty image name
\* and, when it has a remote name, a remote name without ':', parsing the
\* printed form of x succeeds and yields x.
C3_RoundTrip ==
    (ref_parsed # NotRun /\ ref_x.imgref.name # <<>> /\ RemoteHasNoColon(ref_x))
        => ref_parsed = ParseOk(ref_x)

\* A reference signed by a remote, over the registry transport, with ':' and '/'
\* in its image name, has been printed and parsed back.
C3_Witness ==
    /\ ref_parsed = ParseOk(ref_x)
    /\ ref_x.sigverify.sig = "OstreeRemote"
    /\ ref_x.sigverify.remote # <<>>
    /\ ref_x.imgref.transport = "Registry"
    /\ ":" \in Range(ref_x.imgref.name)
    /\ "/" \in Range(ref_x.imgref.name)

\* ---------------------------------------------------------------- C4
\* C4: when worker and driver both fail and the driver's root cause ends in
\* 'broken pipe', join_fetch returns exactly the worker's error: the same chain
\* of messages, nothing of the driver added.
C4_BrokenPipeReturnsWorker ==
    (/\ jf_result # Pending
     /\ ~jf_worker.ok
     /\ ~jf_driver.ok
     /\ EndsWith(RootCause(jf_driver), <<"broken", "pipe">>))
        => jf_result = jf_worker

\* Both failed, the driver with a root cause that ends in 'broken pipe' below a
\* context and after another word, the worker for another reason.
C4_Witness ==
    /\ jf_result # Pending
    /\ ~jf_worker.ok
    /\ ~jf_driver.ok
    /\ Len(jf_driver.chain) > 1
    /\ RootCause(jf_driver) = <<"eof", "broken", "pipe">>
    /\ RootCause(jf_worker) = <<"eof">>
    /\ jf_result = jf_worker

\* ---------------------------------------------------------------- C5
\* C5: join_fetch returns only when both futures have completed; it returns
\* success, with the worker's value, exactly when both succeeded; the worker's
\* error when only the worker failed; the driver's error when only the driver
\* failed; and when both failed with a driver root cause not ending in 'broken
\* pipe', the worker's error with the driver's root-cause message as context.
C5_JoinFetchOutcome ==
    jf_result # Pending =>
        /\ jf_worker # Pending
        /\ jf_driver # Pending
        /\ jf_result.ok <=> (jf_worker.ok /\ jf_driver.ok)
        /\ jf_result.ok => jf_result.v = jf_worker.v
        /\ (~jf_worker.ok /\ jf_driver.ok) => jf_result = jf_worker
        /\ (jf_worker.ok /\ ~jf_driver.ok) => jf_result = jf_driver
        /\ (/\ ~jf_worker.ok
            /\ ~jf_driver.ok
            /\ ~EndsWith(RootCause(jf_driver), <<"broken", "pipe">>))
              => /\ ~jf_result.ok
                 /\ jf_result.chain =
                        <<ProxyFailureMsg(RootCause(jf_driver))>> \o jf_worker.chain

\* Both failed, the driver with 'broken pipe' in the middle of its root cause
\* only, and the result carries the driver's message above the worker's chain.
C5_Witness ==
    /\ jf_result # Pending
    /\ ~jf_worker.ok
    /\ ~jf_driver.ok
    /\ RootCause(jf_driver) = <<"broken", "pipe", "eof">>
    /\ Len(jf_result.chain) = Len(jf_worker.chain) + 1
    /\ jf_result.chain[1] = ProxyFailureMsg(<<"broken", "pipe", "eof">>)

\* ---------------------------------------------------------------- C6
\* C6: for a blob of N bytes read to the end of the stream, the fetched values
\* delivered to the sink never decrease, and once the forwarding loop has ended
\* the last value delivered is N.
C6_ProgressReachesSize ==
    /\ \A i \in 1..Len(pr_sink) : \A j \in i..Len(pr_sink) :
          pr_sink[i].fetched <= pr_sink[j].fetched
    /\ (pr_cfg # NotRun /\ pr_eof /\ pr_fwd = "ended" /\ pr_sink # <<>>)
          => pr_sink[Len(pr_sink)].fetched = pr_cfg.size

\* ---------------------------------------------------------------- C7
\* C7: every LayerProgress sent to the sink has fetched <= total and
\* layer_index < the number of layers of the manifest.
C7_ProgressWithinTotal ==
    \A i \in 1..Len(pr_sink) :
        /\ pr_sink[i].fetched <= pr_sink[i].total
        /\ pr_sink[i].layer_index < pr_cfg.layers

\* ---------------------------------------------------------------- C2
\* C2 (as claimed): no entry written to the output has its path, or its
\* hardlink or symlink target, under REPO_PREFIX, whether the link read was
\* modified or not. "Under REPO_PREFIX" is the test of the code:
\* strip_prefix(REPO_PREFIX) succeeds.
C2_NothingRefersIntoRepo ==
    \A i \in 1..Len(tf_dest) :
        /\ ~UnderRepoPrefix(tf_dest[i].path)
        /\ ~UnderRepoPrefix(tf_dest[i].link)

\* C2 (amended): no entry written to the output has a path that
\* strip_prefix(REPO_PREFIX) accepts, and no hardlink is written with such a
\* target for a modified hardlink whose header link name strip_prefix(REPO_PREFIX)
\* accepts: such a link is written as the carrier of the object, as a link to
\* the carrier, or not at all. Every other hardlink and every symlink is
\* written with the link name of its entry unchanged, which may lie under
\* REPO_PREFIX.
C2_RewrittenLinksLeaveRepo ==
    \A i \in 1..Len(tf_dest) :
        LET o == tf_dest[i]
            e == tf_input[o.src]
            rewritten == /\ e.type = "Link"
                         /\ e.mtime > 0
                         /\ UnderRepoPrefix(e.link)
        IN /\ ~UnderRepoPrefix(o.path)
           /\ rewritten => ~UnderRepoPrefix(o.link)
           /\ (o.type \in {"Link", "Symlink"} /\ ~rewritten) => o.link = EntryLinkName(e)

\* A modified hardlink into REPO_PREFIX was written as a link to the carrier of
\* its object, after the carrier.
C2_Witness ==
    \E i \in 1..Len(tf_dest) : \E j \in 1..(i - 1) :
        /\ tf_dest[i].type = "Link"
        /\ tf_input[tf_dest[i].src].mtime > 0
        /\ UnderRepoPrefix(tf_input[tf_dest[i].src].link)
        /\ tf_dest[j].type = "Regular"
        /\ tf_dest[i].link = tf_dest[j].path

\* ---------------------------------------------------------------- C8
\* The /var subtree of tree f has a non-directory entry on the root device.
VarHasFile(f) == \E p \in Beneath(VarDir) : f[p] = "file"

\* C8: once /var has been opened for the walk, the walk returns true exactly
\* when /var holds no non-directory entry on the root device; the strict prepare
\* returns an error exactly when the walk returns false; the non-strict one
\* returns Ok when the walk returns true or false; and a root without /var is
\* accepted by both.
C8_WalkDecidesResult ==
    cp_runs = 1 =>
        /\ cp_walk \in {"true", "false", "error"} =>
              /\ (cp_walk = "true") <=> ~VarHasFile(fs)
              /\ cp_strict => ((cp_res = "Err") <=> (cp_walk = "false"))
              /\ (~cp_strict /\ cp_walk \in {"true", "false"}) => cp_res = "Ok"
        /\ cp_walk = NoVar => cp_res = "Ok"

\* ---------------------------------------------------------------- C9
\* p lies in the part of /var that prepare only validates: under /var, and
\* neither var/tmp, var/cache nor beneath them.
ValidatedOnly(p) ==
    /\ Len(p) >= 2
    /\ p[1] = "var"
    /\ ~IsPrefix(<<"var", "tmp">>, p)
    /\ ~IsPrefix(<<"var", "cache">>, p)

\* C9: after prepare (strict or not, Ok or error), every non-directory entry
\* that was under /var outside var/tmp and var/cache is still there with all its
\* ancestor directories, and nothing exists that did not exist before: var/tmp
\* in particular is not created.
C9_ValidationKeepsFiles ==
    cp_runs = 1 =>
        /\ \A p \in CpPaths :
              (ValidatedOnly(p) /\ cp_pre[p] = "file")
                  => \A k \in 1..Len(p) : fs[SubSeq(p, 1, k)] = cp_pre[SubSeq(p, 1, k)]
        /\ \A p \in CpPaths : cp_pre[p] = "none" => fs[p] = "none"

\* Prepare ran on a root with a file two levels below var/lib, an empty
\* var/cache and no var/tmp: the file and its ancestors are there, var/cache was
\* removed, var/tmp does not exist.
C9_Witness ==
    /\ cp_runs = 1
    /\ cp_pre[<<"var", "lib", "a">>] = "file"
    /\ fs[<<"var", "lib", "a">>] = "file"
    /\ fs[<<"var", "lib">>] = "dir"
    /\ cp_pre[<<"var", "cache">>] = "dir"
    /\ fs[<<"var", "cache">>] = "none"
    /\ fs[<<"var", "tmp">>] = "none"

\* ---------------------------------------------------------------- C10
\* No entry beneath a force-clean directory of tree f is on another device or is
\* a mount point.
NoMountsInForceClean(f) ==
    \A i \in 1..Len(FORCE_CLEAN_PATHS) :
        \A q \in Beneath(FORCE_CLEAN_PATHS[i]) : f[q] \notin {"xdev", "mnt"}

\* C10: after the strict prepare succeeds on a root whose force-clean
\* directories hold no cross-device entry and no mount point, each of run, tmp
\* and var/tmp that existed is still there and has no entries, nothing that was
\* beneath var/cache is left, and a force-clean path that did not exist still
\* does not exist.
C10_ForceCleanEmpties ==
    (/\ cp_runs = 1
     /\ cp_strict
     /\ cp_res = "Ok"
     /\ NoMountsInForceClean(cp_pre))
        => /\ \A d \in {<<"run">>, <<"tmp">>, <<"var", "tmp">>} :
                 cp_pre[d] # "none" => (fs[d] = cp_pre[d] /\ Children(fs, d) = {})
           /\ \A q \in Beneath(<<"var", "cache">>) : fs[q] = "none"
           /\ \A i \in 1..Len(FORCE_CLEAN_PATHS) :
                 cp_pre[FORCE_CLEAN_PATHS[i]] = "none" => fs[FORCE_CLEAN_PATHS[i]] = "none"

\* The strict prepare succeeded on a root with a file two levels below run and
\* no tmp: run is there without entries, tmp was skipped.
C10_Witness ==
    /\ cp_runs = 1
    /\ cp_strict
    /\ cp_res = "Ok"
    /\ NoMountsInForceClean(cp_pre)
    /\ cp_pre[<<"run", "a", "a">>] = "file"
    /\ cp_pre[<<"var">>] = "dir"
    /\ cp_pre[<<"tmp">>] = "none"
    /\ fs[<<"run">>] = "dir"
    /\ Children(fs, <<"run">>) = {}

\* ---------------------------------------------------------------- C11
\* p is beneath a force-clean directory or beneath /var, and is not itself a
\* force-clean directory.
InTraversal(p) ==
    /\ \/ \E i \in 1..Len(FORCE_CLEAN_PATHS) : p \in Beneath(FORCE_CLEAN_PATHS[i])
       \/ p \in Beneath(VarDir)
    /\ p \notin Range(FORCE_CLEAN_PATHS)

\* C11: with mount points detectable (statx), every entry beneath a force-clean
\* directory or beneath /var that is on another device or is a mount point is
\* still there after prepare, everything beneath it is as it was, and every
\* directory above it is still there.
C11_BoundariesRespected ==
    (cp_runs = 1 /\ cp_statx) =>
        \A p \in CpPaths :
            (InTraversal(p) /\ cp_pre[p] \in {"xdev", "mnt"})
                => /\ fs[p] = cp_pre[p]
                   /\ \A q \in Beneath(p) : fs[q] = cp_pre[q]
                   /\ \A k \in 1..(Len(p) - 1) : fs[SubSeq(p, 1, k)] = cp_pre[SubSeq(p, 1, k)]

\* ---------------------------------------------------------------- C12
\* The child is blocked in a write: it has output left and the pipe is full.
ChildBlocked ==
    /\ wt_child.state = "running"
    /\ \/ wt_child.out_todo # <<>> /\ Len(wt_pipes.out) = PipeCap
       \/ wt_child.err_todo # <<>> /\ Len(wt_pipes.err) = PipeCap

\* C12: the child's stdout and stderr are drained while the child runs:
\* whenever the running child is blocked on a full pipe, output_copier is being
\* awaited, so the child is not blocked forever.
C12_OutputDrainedWhileRunning ==
    ChildBlocked => wt_pc \in {"copy_ok", "copy_err"}

\* ---------------------------------------------------------------- C13
\* t is s without its leading and trailing white space.
IsTrimOf(t, s) ==
    \E i \in 0..Len(s) : \E j \in 0..(Len(s) - i) :
        /\ t = SubSeq(s, i + 1, Len(s) - j)
        /\ \A k \in 1..i : s[k] \in WhiteSpace
        /\ \A k \in (Len(s) - j + 1)..Len(s) : s[k] \in WhiteSpace
        /\ t # <<>> => (t[1] \notin WhiteSpace /\ t[Len(t)] \notin WhiteSpace)

\* C13 (as claimed): when write_tar returns and the child exited with a
\* non-zero status, the result is an error whose chain has the child's stderr,
\* trimmed; when the child exited with status zero and the filter succeeded,
\* the result is Ok with commit the child's stdout, trimmed, and filtered the
\* filter's tally.
C13_ReconcileAlways ==
    wt_pc = "done" =>
        /\ (wt_child.state = "exited" /\ wt_child.code # 0)
              => /\ ~wt_result.ok
                 /\ \E k \in 1..Len(wt_result.chain) :
                       IsTrimOf(wt_result.chain[k], wt_child.err_all)
        /\ (wt_child.state = "exited" /\ wt_child.code = 0
            /\ wt_filter # Pending /\ wt_filter.ok)
              => /\ wt_result.ok
                 /\ IsTrimOf(wt_result.v.commit, wt_child.out_all)
                 /\ wt_result.v.filtered = wt_filter.v

\* C13 (amended): the same, provided output_copier succeeded in reading the
\* child's stdout and stderr; when the child exited with a non-zero status the
\* result is an error in any case.
C13_ReconcileWhenCopied ==
    wt_pc = "done" =>
        /\ (wt_child.state = "exited" /\ wt_child.code # 0)
              => /\ ~wt_result.ok
                 /\ ~wt_bufs.failed =>
                       \E k \in 1..Len(wt_result.chain) :
                           IsTrimOf(wt_result.chain[k], wt_child.err_all)
        /\ (wt_child.state = "exited" /\ wt_child.code = 0
            /\ wt_filter # Pending /\ wt_filter.ok /\ ~wt_bufs.failed)
              => /\ wt_result.ok
                 /\ IsTrimOf(wt_result.v.commit, wt_child.out_all)
                 /\ wt_result.v.filtered = wt_filter.v

\* write_tar returned after the child exited with a non-zero status having
\* written " c" to stderr: the outermost context of the error is "c".
C13_Witness ==
    /\ wt_pc = "done"
    /\ wt_child.state = "exited"
    /\ wt_child.code # 0
    /\ wt_child.err_all = <<" ", "c">>
    /\ ~wt_result.ok
    /\ wt_result.chain[1] = <<"c">>
    /\ wt_result.chain[Len(wt_result.chain)] = FailedToCommit

\* ---------------------------------------------------------------- C14
\* The configuration the i-th application of the merge was given.
MergeInput(i) == IF i = 1 THEN mg_init ELSE mg_res[i - 1].cfg

\* C14: applying the merge again to a configuration a successful merge has
\* produced, with the same isolation user and in the same environment,
\* succeeds and leaves every field of the configuration as it is.
C14_MergeIdempotent ==
    \A i \in 2..Len(mg_res) :
        mg_res[i - 1].ret.ok =>
            /\ mg_res[i].ret.ok
            /\ mg_res[i].cfg = mg_res[i - 1].cfg

\* Witness for C14: a configuration without authentication, merged twice
\* with an isolation user where a global auth file exists: the first merge
\* moved the global auth file into auth_data and set the command, the second
\* changed nothing.
C14_Witness ==
    /\ Len(mg_res) >= 2
    /\ ~AuthSpecified(mg_init)
    /\ ~mg_init.skopeo_cmd.some
    /\ mg_user.some
    /\ mg_env.lookup = "found"
    /\ mg_res[1].ret.ok
    /\ mg_res[2].ret.ok
    /\ mg_res[1].cfg.auth_data = Some(File(GlobalAuthfile))
    /\ mg_res[2].cfg = mg_res[1].cfg
    /\ mg_res[1].cfg # mg_init

\* ---------------------------------------------------------------- C15
\* C15: a merge given a configuration whose skopeo_cmd is set leaves
\* skopeo_cmd and auth_data as they were and does not take a configured
\* authfile away; a successful merge given a configuration without skopeo_cmd
\* and an isolation user sets skopeo_cmd to the unprivileged skopeo command
\* of that user, leaves authfile absent and, if the configuration had an
\* authfile, auth_data is that file opened; a merge without isolation user
\* leaves an absent skopeo_cmd absent.
C15_IsolationOnlyWithoutCommand ==
    \A i \in 1..Len(mg_res) :
        LET c == MergeInput(i)
            r == mg_res[i]
        IN  /\ c.skopeo_cmd.some =>
                /\ r.cfg.skopeo_cmd = c.skopeo_cmd
                /\ r.cfg.auth_data = c.auth_data
                /\ (c.authfile.some => r.cfg.authfile = c.authfile)
            /\ (~c.skopeo_cmd.some /\ mg_user.some /\ r.ret.ok) =>
                /\ r.cfg.skopeo_cmd = Some(unprivileged_subprocess("skopeo", mg_user.v))
                /\ ~r.cfg.authfile.some
                /\ (c.authfile.some => r.cfg.auth_data = Some(File(c.authfile.v)))
            /\ (~c.skopeo_cmd.some /\ ~mg_user.some) => ~r.cfg.skopeo_cmd.some

\* Witness for C15: a merge with isolation user "foo" of a configuration with
\* an authfile, auth_data and no command: the command is the unprivileged one
\* and auth_data is the opened authfile.
C15_Witness ==
    /\ Len(mg_res) >= 1
    /\ mg_user = Some("foo")
    /\ ~mg_init.skopeo_cmd.some
    /\ mg_init.authfile = Some(UserAuthfile)
    /\ mg_init.auth_data = Some(File(UserAuthData))
    /\ mg_res[1].ret.ok
    /\ mg_res[1].cfg.auth_data = Some(File(UserAuthfile))
    /\ mg_res[1].cfg.skopeo_cmd = Some(unprivileged_subprocess("skopeo", "foo"))

\* ---------------------------------------------------------------- C16
\* C16: a successful merge of a configuration that specifies no
\* authentication has, before isolation is dealt with, set authfile to the
\* global auth file if the lookup found one (auth_anonymous staying false),
\* and otherwise set auth_anonymous; a merge of a configuration that specifies
\* some authentication does not change auth_anonymous and adopts no global
\* auth file (authfile and auth_data hold nothing but what the configuration
\* itself named); after a successful merge one of auth_anonymous, authfile,
\* auth_data is set.
C16_DefaultAuthentication ==
    \A i \in 1..Len(mg_res) :
        LET c == MergeInput(i)
            r == mg_res[i]
        IN  /\ (~AuthSpecified(c) /\ r.ret.ok /\ mg_env.lookup = "found") =>
                /\ r.after_auth.authfile = Some(GlobalAuthfile)
                /\ ~r.cfg.auth_anonymous
            /\ (~AuthSpecified(c) /\ r.ret.ok /\ mg_env.lookup # "found") =>
                /\ r.cfg.auth_anonymous
                /\ ~r.cfg.authfile.some
            /\ AuthSpecified(c) =>
                /\ r.cfg.auth_anonymous = c.auth_anonymous
                /\ r.after_auth = c
                /\ r.cfg.authfile \in {c.authfile, None}
                /\ r.cfg.auth_data \in
                       {c.auth_data} \cup
                       (IF c.authfile.some THEN {Some(File(c.authfile.v))} ELSE {})
            /\ r.ret.ok => AuthSpecified(r.cfg)

\* Witness for C16: a merge of a configuration without authentication where
\* no global auth file exists: anonymous pulls were forced.
C16_Witness ==
    /\ Len(mg_res) >= 1
    /\ ~AuthSpecified(mg_init)
    /\ mg_env.lookup = "none"
    /\ mg_res[1].ret.ok
    /\ mg_res[1].cfg.auth_anonymous
    /\ ~mg_res[1].cfg.authfile.some
    /\ ~mg_res[1].cfg.auth_data.some

\* ---------------------------------------------------------------- C17
\* The digests of the layers of a manifest, and of a list of descriptors.
DigestsOf(layers) == {layers[i].digest : i \in DOMAIN layers}

\* No digest twice, ascending by digest.
StrictlyAscending(v) == \A i, j \in DOMAIN v : i < j => v[i].digest < v[j].digest

\* C17: in every ManifestDiff::new(from, to) computed, the digests of removed
\* are the layer digests of from that are no layer digests of to, the digests
\* of added are the layer digests of to that are no layer digests of from, no
\* digest occurs twice in either list, and both lists ascend by digest.
C17_DiffIsSortedSetDifference ==
    \A c \in DiffCalls :
        md_out[c] # NotRun =>
            LET d == md_out[c]
            IN  /\ DigestsOf(d.removed) = DigestsOf(d.from) \ DigestsOf(d.to)
                /\ DigestsOf(d.added) = DigestsOf(d.to) \ DigestsOf(d.from)
                /\ StrictlyAscending(d.removed)
                /\ StrictlyAscending(d.added)
                /\ \A i \in DOMAIN d.removed : \E j \in DOMAIN d.from : d.from[j] = d.removed[i]
                /\ \A i \in DOMAIN d.added : \E j \in DOMAIN d.to : d.to[j] = d.added[i]

\* Witness for C17: a diff from a manifest that lists digest 3 before digest
\* 1 and digest 3 twice, to a manifest with neither: removed is 1, 3.
C17_Witness ==
    /\ md_out["ab"] # NotRun
    /\ Len(md_a) = 3
    /\ md_a[1].digest = 3
    /\ md_a[2].digest = 1
    /\ md_a[3].digest = 3
    /\ DigestsOf(md_b) = {2}
    /\ Len(md_out["ab"].removed) = 2
    /\ md_out["ab"].removed[1].digest = 1
    /\ md_out["ab"].removed[2].digest = 3
    /\ Len(md_out["ab"].added) = 1

\* ---------------------------------------------------------------- C18
\* C18: ManifestDiff::new(a, a) has empty added and removed, and the digests
\* of ManifestDiff::new(a, b).added are those of ManifestDiff::new(b, a).removed.
C18_DiffAlgebra ==
    /\ md_out["aa"] # NotRun =>
        /\ md_out["aa"].added = <<>>
        /\ md_out["aa"].removed = <<>>
    /\ (md_out["ab"] # NotRun /\ md_out["ba"] # NotRun) =>
        DigestsOf(md_out["ab"].added) = DigestsOf(md_out["ba"].removed)

\* Witness for C18: all three diffs computed for manifests a and b where b
\* has a layer a lacks.
C18_Witness ==
    /\ \A c \in DiffCalls : md_out[c] # NotRun
    /\ md_a # <<>>
    /\ md_out["ab"].added # <<>>
    /\ DigestsOf(md_out["ab"].added) = DigestsOf(md_out["ba"].removed)
    /\ md_out["aa"].added = <<>>

\* ---------------------------------------------------------------- C19
\* C19: an ImageReference a parse has returned, by itself or inside an
\* OstreeImageReference, has a name that is not empty.
C19_ParsedNameNotEmpty ==
    /\ (rp_img # NotRun /\ rp_img.ok) => rp_img.v.name # <<>>
    /\ (rp_ost # NotRun /\ rp_ost.ok) => rp_ost.v.imgref.name # <<>>

\* ---------------------------------------------------------------- C20
\* "docker:" that "//" does not follow.
DockerWithoutSlashes(s) ==
    /\ HasColon(s)
    /\ BeforeColon(s) = <<"docker">>
    /\ ~IsPrefix(<<"/", "/">>, AfterColon(s))

\* A tag before the first ':' that is no transport tag.
UnknownTransport(s) == HasColon(s) /\ \A t \in TransportTags : BeforeColon(s) # <<t>>

\* The strings an OstreeImageReference parse hands on as the image reference:
\* what follows the scheme, or what follows the remote name.
ImagePart(s) ==
    IF ~HasColon(s) THEN {}
    ELSE IF BeforeColon(s) \in {<<"ostree-image-signed">>, <<"ostree-unverified-image">>}
         THEN {AfterColon(s)}
    ELSE IF BeforeColon(s) = <<"ostree-remote-image">> /\ HasColon(AfterColon(s))
         THEN {AfterColon(AfterColon(s))}
    ELSE {}

\* The forms ImageReference::try_from is to reject.
InvalidImageForm(s) ==
    \/ s = <<>>
    \/ ~HasColon(s)
    \/ DockerWithoutSlashes(s)
    \/ UnknownTransport(s)

\* The forms OstreeImageReference::try_from is to reject.
InvalidOstreeForm(s) ==
    \/ s = <<>>
    \/ ~HasColon(s)
    \/ \A sc \in Schemes : BeforeColon(s) # <<sc>>
    \/ /\ BeforeColon(s) \in {<<"ostree-remote-image">>, <<"ostree-remote-registry">>}
       /\ ~HasColon(AfterColon(s))
    \/ \E p \in ImagePart(s) : InvalidImageForm(p)

\* C20: parsing returns an error for the empty string, for a string without
\* ':', for "docker:" without "//" behind it, for an unknown transport tag,
\* for an unknown scheme, and for ostree-remote-image: / ostree-remote-registry:
\* without a second ':'.
C20_InvalidFormsRejected ==
    /\ (rp_img # NotRun /\ InvalidImageForm(rp_in)) => ~rp_img.ok
    /\ (rp_ost # NotRun /\ InvalidOstreeForm(rp_in)) => ~rp_ost.ok

\* Witness for C20: "ostree-remote-image:a", which has an unknown transport
\* tag for the one parser and no second ':' for the other, rejected by both.
C20_Witness ==
    /\ rp_in = <<"ostree-remote-image", ":", "a">>
    /\ rp_img # NotRun
    /\ ~rp_img.ok
    /\ rp_ost # NotRun
    /\ ~rp_ost.ok

\* ---------------------------------------------------------------- C22
\* The normal segments of a path, in order.
NormalSegs(p) == SelectSeq(p, LAMBDA x : x \notin {"", ".", ".."})

\* The path has only normal and current-dir components (no root, no '..').
OnlyNormalOrCurDir(p) ==
    \A i \in 1..Len(Components(p)) : Components(p)[i].c \in {"Normal", "CurDir"}

\* The path string begins with "./": a "." segment and something behind it.
BeginsDotSlash(p) == Len(p) >= 2 /\ p[1] = "."

\* C22 (as claimed): every Normal(p) returned begins with "./" and has "usr"
\* as its first normal component, whatever the input; and for an input of
\* normal and current-dir components whose first normal component is "usr",
\* p begins with "./usr/".
C22_NormalAlwaysUnderUsr ==
    (np_out # NotRun /\ np_out.kind = "Normal") =>
        /\ BeginsDotSlash(np_out.path)
        /\ NormalSegs(np_out.path) # <<>>
        /\ NormalSegs(np_out.path)[1] = "usr"
        /\ (OnlyNormalOrCurDir(np_in) /\ NormalSegs(np_in) # <<>>
              /\ NormalSegs(np_in)[1] = "usr") =>
               (IsPrefix(<<".", "usr">>, np_out.path) /\ Len(np_out.path) >= 3)

\* C22 (amended): every Normal(p) returned for an input that has a normal
\* component begins with "./" and has "usr" as its first normal component;
\* for an input without normal component p is "." or empty; and for an input
\* of normal and current-dir components whose first normal component is
\* "usr", p is "./usr" or begins with "./usr/".
C22_NormalUnderUsr ==
    (np_out # NotRun /\ np_out.kind = "Normal") =>
        /\ NormalSegs(np_in) # <<>> =>
               /\ BeginsDotSlash(np_out.path)
               /\ NormalSegs(np_out.path)[1] = "usr"
        /\ NormalSegs(np_in) = <<>> => np_out.path \in {<<".">>, <<>>}
        /\ (OnlyNormalOrCurDir(np_in) /\ NormalSegs(np_in) # <<>>
              /\ NormalSegs(np_in)[1] = "usr") =>
               IsPrefix(<<".", "usr">>, np_out.path)

\* Witness for C22: "usr/etc" normalized to "./usr/etc".
C22_Witness ==
    /\ np_in = <<"usr", "etc">>
    /\ np_out = NormalizedNormal(<<".", "usr", "etc">>)

\* ---------------------------------------------------------------- C23
\* The path has only root, current-dir and normal components.
NoParentDir(p) == \A i \in 1..Len(p) : p[i] # ".."

\* The reference: what the normal segments alone decide.
ReferenceNormalize(p) ==
    LET ns == NormalSegs(p)
    IN  IF ns = <<>> THEN NormalizedNormal(IF Components(p) = <<>> THEN <<>> ELSE <<".">>)
        ELSE IF ns[1] = "usr" THEN NormalizedNormal(<<".">> \o ns)
        ELSE IF ns[1] = "etc" THEN NormalizedNormal(<<".", "usr", "etc">> \o Tail(ns))
        ELSE NormalizedFiltered(ns[1])

\* C23: for every path of root, current-dir and normal components,
\* normalize_validate_path returns what the reference returns: Normal of "./"
\* and the normal components when the first of them is "usr", the same with
\* "etc" replaced by "usr/etc" when it is "etc", Filtered(c) when it is any
\* other c; a leading root, repeated separators and current-dir components
\* make no difference.
C23_AgreesWithReference ==
    (np_out # NotRun /\ NoParentDir(np_in)) => np_out = ReferenceNormalize(np_in)

\* Witness for C23: "/etc//usr" normalized to "./usr/etc/usr".
C23_Witness ==
    /\ np_in = <<"", "etc", "", "usr">>
    /\ np_out = NormalizedNormal(<<".", "usr", "etc", "usr">>)

\* ---------------------------------------------------------------- C21
\* s without its first n tokens.
DropTokens(s, n) == SubSeq(s, n + 1, Len(s))

\* The name behind lead in payload, when payload is lead and a non-empty name.
NameBehind(payload, lead) ==
    IF IsPrefix(lead, payload) /\ Len(payload) > Len(lead)
    THEN {DropTokens(payload, Len(lead))}
    ELSE {}
\* The N of a string sc ':' lead N, sc being a scheme without remote name.
PlainForm(s, sc, lead) ==
    IF HasColon(s) /\ BeforeColon(s) = <<sc>> THEN NameBehind(AfterColon(s), lead) ELSE {}
\* The R and N of a string sc ':' R ':' lead N: the remote name R ends at the
\* first ':' behind the scheme.
RemoteForm(s, sc, lead) ==
    IF HasColon(s) /\ BeforeColon(s) = <<sc>> /\ HasColon(AfterColon(s))
    THEN {[R |-> BeforeColon(AfterColon(s)), N |-> n] :
             n \in NameBehind(AfterColon(AfterColon(s)), lead)}
    ELSE {}

\* What the parsed OstreeImageReference and its printed form have to be.
ParsedAndPrintedAs(x, printed) ==
    /\ rp_ost # NotRun => rp_ost = ParseOk(x)
    /\ rp_str["ost"] # NotRun => rp_str["ost"].s = printed

\* C21: for every remote R without ':' and every non-empty name N,
\* "ostree-remote-registry:R:N" and "ostree-remote-image:R:registry:N" both
\* parse to (OstreeRemote(R), Registry:N), which prints as
\* "ostree-remote-image:R:docker://N"; "ostree-unverified-registry:N" and
\* "ostree-unverified-image:docker://N" both parse to
\* (ContainerPolicyAllowInsecure, Registry:N); and every parsed Registry
\* reference prints with "docker://" in front of its name.
C21_ShorthandsAndCanonicalPrint ==
    /\ \A f \in RemoteForm(rp_in, "ostree-remote-registry", <<>>)
              \cup RemoteForm(rp_in, "ostree-remote-image", <<"registry", ":">>) :
           ParsedAndPrintedAs(
               OstreeImageReference(OstreeRemote(f.R), ImageReference("Registry", f.N)),
               <<"ostree-remote-image", ":">> \o f.R
                   \o <<":", "docker", ":", "/", "/">> \o f.N)
    /\ \A N \in PlainForm(rp_in, "ostree-unverified-registry", <<>>)
              \cup PlainForm(rp_in, "ostree-unverified-image", <<"docker", ":", "/", "/">>) :
           ParsedAndPrintedAs(
               OstreeImageReference(ContainerPolicyAllowInsecure,
                                    ImageReference("Registry", N)),
               <<"ostree-unverified-image", ":", "docker", ":", "/", "/">> \o N)
    /\ (rp_str["img"] # NotRun /\ rp_img.v.transport = "Registry") =>
           rp_str["img"].s = <<"docker", ":", "/", "/">> \o rp_img.v.name
    /\ (rp_str["ost"] # NotRun /\ rp_ost.v.imgref.transport = "Registry") =>
           EndsWith(rp_str["ost"].s,
                    <<":", "docker", ":", "/", "/">> \o rp_ost.v.imgref.name)

\* Witness for C21: "ostree-remote-registry:a:a/" parsed and printed as
\* "ostree-remote-image:a:docker://a/".
C21_Witness ==
    /\ rp_in = <<"ostree-remote-registry", ":", "a", ":", "a", "/">>
    /\ rp_ost = ParseOk(OstreeImageReference(OstreeRemote(<<"a">>),
                                             ImageReference("Registry", <<"a", "/">>)))
    /\ rp_str["ost"] # NotRun
    /\ rp_str["ost"].s =
           <<"ostree-remote-image", ":", "a", ":", "docker", ":", "/", "/", "a", "/">>

\* ---------------------------------------------------------------- C24
\* C24: when fetch_manifest_and_config returns its result, the proxy has seen
\* open-image, fetch-manifest, fetch-config and close-image, in that order,
\* and no image handle is left open.
C24_ConfigFetchClosesHandle ==
    (px_op = "fetch_manifest_and_config" /\ px_pc = "done" /\ px_result.ok) =>
        /\ px_log = <<OpenImageReq(ImageReferenceDisplay(px_ref)),
                      FetchManifestReq(ImageHandle), FetchConfigReq(ImageHandle),
                      CloseImageReq(ImageHandle)>>
        /\ px_open = {}

\* ---------------------------------------------------------------- C25
\* C25: the requests fetch_manifest sends are open-image, fetch-manifest and
\* close-image on the handle opened, in that order, and when it has returned,
\* with the manifest or with an error of the manifest fetch, no image handle
\* is left open.
C25_ManifestFetchClosesHandle ==
    px_op = "fetch_manifest" =>
        /\ IsPrefix(px_log, <<OpenImageReq(ImageReferenceDisplay(px_ref)),
                              FetchManifestReq(ImageHandle), CloseImageReq(ImageHandle)>>)
        /\ px_pc = "done" => px_open = {}


\* ---------------------------------------------------------------- C27
\* C27: every turn of the loop of filter_tar leaves the entries already written
\* in place and writes at most one entry behind them, and an entry is written
\* only in the turn that reads an input entry, which is the entry recorded as
\* its cause: the output is in the order of the input entries causing it.
C27_EntryOrderPreserved ==
    [][/\ Len(tf_dest') <= Len(tf_dest) + 1
       /\ SubSeq(tf_dest', 1, Len(tf_dest)) = tf_dest
       /\ Len(tf_dest') > Len(tf_dest) =>
             /\ Len(tf_input') = Len(tf_input) + 1
             /\ tf_dest'[Len(tf_dest')].src = Len(tf_input')]_vars

\* Three entries were read and two written, the first a copy and the second
\* the carrier of an object read before the copy.
C27_Witness ==
    /\ Len(tf_input) = 3
    /\ Len(tf_dest) = 2
    /\ tf_dest[1].src = 2 /\ tf_dest[1].body = 2
    /\ tf_dest[2].src = 3 /\ tf_dest[2].body = 1


\* ---------------------------------------------------------------- C28
\* The entry is spilled by the sysroot-object case.
Spilled(e) == UnderRepoPrefix(e.path) /\ e.mtime > 0 /\ e.type = "Regular"

\* The entry is handled by the hardlink case: a modified hardlink outside
\* REPO_PREFIX whose link name, as read there, lies under REPO_PREFIX.
InHardlinkCase(e) ==
    /\ ~UnderRepoPrefix(e.path)
    /\ e.type = "Link"
    /\ e.mtime > 0
    /\ UnderRepoPrefix(e.link)

\* The input entries, among those General(_) lets through to the general case,
\* whose path normalizes to Filtered(_).
FilteredInputs(General(_)) ==
    {n \in 1..Len(tf_input) :
        /\ General(tf_input[n])
        /\ normalize_validate_path(tf_input[n].path).kind = "Filtered"}

\* The tally counts exactly those entries, under their prefixes.
TallyCounts(General(_)) ==
    LET prefix(n) == normalize_validate_path(tf_input[n].path).prefix IN
    /\ DOMAIN tf_filtered = {prefix(n) : n \in FilteredInputs(General)}
    /\ \A k \in DOMAIN tf_filtered :
          /\ tf_filtered[k] = Cardinality({n \in FilteredInputs(General) : prefix(n) = k})
          /\ tf_filtered[k] > 0

\* The general case as claimed: no entry under REPO_PREFIX reaches it.
GeneralOutsideRepo(e) == ~UnderRepoPrefix(e.path) /\ ~InHardlinkCase(e)

\* The general case: all entries but the spilled ones and those of the hardlink
\* case.
GeneralCase(e) == ~Spilled(e) /\ ~InHardlinkCase(e)

\* C28 (as claimed): the tally maps each prefix k to the number of entries read
\* that normalize to Filtered(k), not counting any entry whose path lies under
\* REPO_PREFIX nor any entry of the hardlink case; no key has the count 0.
C28_TallyLeavesOutRepoEntries == TallyCounts(GeneralOutsideRepo)

\* C28 (amended): the tally maps each prefix k to the number of entries read
\* that normalize to Filtered(k), not counting the spilled entries (modified
\* regular files under REPO_PREFIX) nor the entries of the hardlink case; every
\* other entry under REPO_PREFIX is counted, under "sysroot"; no key has the
\* count 0.
C28_TallyCountsGeneralCase == TallyCounts(GeneralCase)

\* filter_tar returned a tally counting two entries under one prefix, having
\* spilled an object or met a hardlink of the hardlink case.
C28_Witness ==
    /\ tf_result.kind = "Ok"
    /\ tf_result.filtered = tf_filtered
    /\ \E k \in DOMAIN tf_filtered : tf_filtered[k] = 2
    /\ \E n \in 1..Len(tf_input) : Spilled(tf_input[n]) \/ InHardlinkCase(tf_input[n])


\* ---------------------------------------------------------------- C29
\* The n-th entry read was handled without an error.
Handled(n) == n < Len(tf_input) \/ tf_result.kind # "Err"

\* The indices of the output entries written while the n-th entry was handled.
WrittenFor(n) == {i \in 1..Len(tf_dest) : tf_dest[i].src = n}

\* A modified hardlink outside REPO_PREFIX whose target, given by Target(_),
\* lies under REPO_PREFIX.
HardlinkInto(e, Target(_)) ==
    /\ ~UnderRepoPrefix(e.path)
    /\ e.type = "Link"
    /\ e.mtime > 0
    /\ UnderRepoPrefix(Target(e))

\* The output entry is the copy of link e with the target in its long form.
LongFormCopy(o, e) == o.type = e.type /\ o.link = EntryLinkName(e)

\* C29: the filter reads every hardlink and symlink target in its long form:
\* a modified hardlink whose long-form target lies under REPO_PREFIX is handled
\* by the hardlink case and not copied with its target unchanged, and every
\* other link with a normal path is copied with its long-form target.
C29_TargetsReadInLongForm ==
    \A n \in 1..Len(tf_input) :
        LET e == tf_input[n] IN
        (/\ Handled(n)
         /\ e.type \in {"Link", "Symlink"}
         /\ EntryLinkName(e) # NoLink
         /\ normalize_validate_path(e.path).kind = "Normal") =>
            IF HardlinkInto(e, EntryLinkName)
            THEN \A i \in WrittenFor(n) : ~LongFormCopy(tf_dest[i], e)
            ELSE \E i \in WrittenFor(n) : LongFormCopy(tf_dest[i], e)

\* ---------------------------------------------------------------- C26
SetMax(S) == CHOOSE x \in S : \A y \in S : y <= x
SetMin(S) == CHOOSE x \in S : \A y \in S : x <= y

\* The rewriting of the hardlinks into REPO_PREFIX, told from the entries read
\* and written, with Target(_) giving the target of a hardlink. For the n-th
\* entry, such a hardlink to t: s is the last spill of t before it, and first
\* the first such hardlink to t since that spill.
HardlinkRewriting(Target(_)) ==
    \A n \in 1..Len(tf_input) :
        LET e == tf_input[n]
            t == Components(Target(e))
            spills == {s \in 1..(n - 1) :
                          /\ Spilled(tf_input[s])
                          /\ Components(tf_input[s].path) = t}
            since(s) == {c \in (s + 1)..(n - 1) :
                            /\ HardlinkInto(tf_input[c], Target)
                            /\ Components(Target(tf_input[c])) = t}
            out == {tf_dest[i] : i \in WrittenFor(n)}
        IN (Handled(n) /\ HardlinkInto(e, Target)) =>
              /\ Cardinality(WrittenFor(n)) <= 1
              /\ IF spills = {}
                 THEN out = {}
                 ELSE LET s == SetMax(spills) IN
                      IF since(s) = {}
                      THEN out = {OutEntry(e.path, "Regular", tf_input[s].mtime,
                                           NoLink, n, s)}
                      ELSE out = {OutEntry(e.path, "Link", e.mtime,
                                           tf_input[SetMin(since(s))].path, n, 0)}

\* No body is written twice.
BodiesWrittenOnce ==
    \A i, j \in 1..Len(tf_dest) :
        (i # j /\ tf_dest[i].body # 0) => tf_dest[i].body # tf_dest[j].body

\* C26: the first modified hardlink read after an object was spilled, whose
\* target is the path of the object, is written as a data entry at the path of
\* the hardlink with the header and body of the object; every later modified
\* hardlink to that target is written as a hardlink to the path of the first;
\* a modified hardlink into REPO_PREFIX to a target never spilled is dropped;
\* no spilled body is written twice.
C26_HardlinksRewritten == HardlinkRewriting(EntryLinkName) /\ BodiesWrittenOnce

\* ---------------------------------------------------------------- C30
\* The smaller of two numbers.
Min(a, b) == IF a < b THEN a ELSE b

\* C30: when the walk has met N entries that are no directories, a 'Found
\* file' line has been printed for each of the first min(N, 20) of them and
\* for no other, and all N are counted.
C30_FirstTwentyDiagnosed ==
    /\ dg_diags = 1..Min(dg_files, 20)
    /\ dg_count = dg_files


\* ---------------------------------------------------------------- C31
VarTmp == <<"var", "tmp">>

\* The walk of directory p of /var in tree f: process_vardir_recurse with the
\* path of p relative to /var.
WalkOf(f, p, rev) == process_vardir_recurse(f, Tail(p), rev, 0)

\* The directories of the root device beneath /var in tree f.
VarDirsOf(f) == {p \in Beneath(VarDir) : IsDir(f[p])}

\* The walk of p, ended in tree g, leaves p as the claim says: removed when it
\* has no entries and is not var/tmp, and kept otherwise.
StrippedIfEmpty(f, g, p) ==
    IF Children(g, p) = {} /\ p # VarTmp
    THEN g[p] = "none"
    ELSE g[p] = f[p]

\* C31: the walk of a directory of the root device beneath /var removes it
\* when it is left without entries, its empty subdirectories having been
\* removed, unless it is var/tmp; it keeps it, and every non-directory entry
\* beneath it, otherwise; and the walk of /var itself never removes /var.
C31_EmptyDirectoriesStripped ==
    \A rev \in BOOLEAN :
        /\ \A p \in VarDirsOf(fs) :
              LET g == WalkOf(fs, p, rev).fs IN
              /\ StrippedIfEmpty(fs, g, p)
              /\ \A q \in Beneath(p) : fs[q] \in {"file", "xdev"} => g[q] = fs[q]
        /\ IsDir(fs[VarDir]) => WalkOf(fs, VarDir, rev).fs[VarDir] = fs[VarDir]


\* ---------------------------------------------------------------- C36
\* Every force-clean path and /var can be opened in tree f, or is missing.
OpensCleanly(f) ==
    /\ OpenDirOptional(f, VarDir) # "err"
    /\ \A i \in 1..Len(FORCE_CLEAN_PATHS) : OpenDirOptional(f, FORCE_CLEAN_PATHS[i]) # "err"

\* C36: no remove_dir of the two walkers fails: when the directories prepare
\* opens can be opened, clean_paths_in succeeds and the walk of /var returns
\* without an error; and prepare, strict or not, returns Ok on a root whose
\* /var holds nothing but directories and entries of other devices.
C36_RemoveDirNeverFails ==
    (cp_runs = 1 /\ OpensCleanly(cp_pre)) =>
        /\ cp_walk \notin {"error", Unreached}
        /\ (\A p \in Beneath(VarDir) : cp_pre[p] # "file") => cp_res = "Ok"


\* ---------------------------------------------------------------- C37
\* The other of prepare_ostree_commit_in and prepare_ostree_commit_in_nonstrict,
\* called on the tree the first call started from.
OtherPrepare == prepare_ostree_commit(cp_pre, ~cp_strict, cp_statx, cp_rev)

C32_SepolicyOutlivesChild ==
    wt_sepolicy = "destroyed" => wt_child.state \in {"exited", "killed"}

\* write_tar returned after the tar filter failed while the child was running:
\* the child was killed and the policy directory destroyed after it.
C32_Witness ==
    /\ wt_pc = "done"
    /\ wt_sepolicy = "destroyed"
    /\ wt_filter # Pending
    /\ ~wt_filter.ok
    /\ wt_status = Pending
    /\ wt_child.state = "killed"


\* ---------------------------------------------------------------- C35
\* C35: every entry written has the path normalize_validate_path returns as
\* Normal for the path of the input entry it was written for, and that path
\* has no '..', begins with "./" and lies under usr; so an input entry whose
\* path fails or is Filtered is not written.
C35_OutputPathsNormalized ==
    \A i \in 1..Len(tf_dest) :
        LET o == tf_dest[i]
            normalized == normalize_validate_path(tf_input[o.src].path)
        IN /\ normalized.kind = "Normal"
           /\ o.path = normalized.path
           /\ ".." \notin Range(o.path)
           /\ BeginsDotSlash(o.path)
           /\ NormalSegs(o.path) # <<>>
           /\ NormalSegs(o.path)[1] = "usr"


\* ---------------------------------------------------------------- C38
\* C38: the driver future returned with a progress sink has completed only if
\* the proxy's driver has completed and the forwarding task has ended, which it
\* does only once the progress sender held by the reader is dropped: it never
\* completes while the reader is alive, and its output is that of the proxy's
\* driver.
C38_DriverWaitsForReader ==
    /\ pr_fwd = "ended" /\ pr_cfg # NotRun => pr_chan.closed
    /\ pr_out # Pending =>
          /\ pr_driver # Pending
          /\ pr_fwd = "ended"
          /\ pr_chan.closed
          /\ pr_out = pr_driver

\* The proxy's driver failed while the reader was alive; the driver future
\* completed with that error after the reader was dropped and the forwarding
\* task had sent a last value and ended.
C38_Witness ==
    /\ pr_out = Err(<<DriverError>>)
    /\ pr_sink # <<>>
    /\ pr_eof

\* C34: from containers-storage the blob requested is the one the converted-layer
\* record at layer_index names (its digest and size in the request, its media
\* type choosing the decompressor, its size the total); without a converted-layer
\* list, or with layer_index past its end, the call fails and no blob is
\* requested; from any other transport the digest, size and media type are the
\* descriptor's own.
BlobOf(in) ==
    IF in.transport_src = "ContainerStorage"
    THEN in.layer_info.v[LayerPosition(in.layers, in.layer) + 1]
    ELSE in.layer

HasBlob(in) ==
    in.transport_src = "ContainerStorage" =>
        /\ in.layer_info.some
        /\ LayerPosition(in.layers, in.layer) < Len(in.layer_info.v)

C34_BlobSourceSelected ==
    bs_out # Pending =>
        IF HasBlob(bs_in)
        THEN /\ bs_out.requests =
                  <<GetBlobReq(BlobOf(bs_in).digest, BlobOf(bs_in).size)>>
             /\ bs_out.res.ok =>
                  /\ bs_out.res.v.total = BlobOf(bs_in).size
                  /\ bs_out.res.v.layer_index = LayerPosition(bs_in.layers, bs_in.layer)
                  /\ bs_out.res.v.decompressor =
                       new_async_decompressor(BlobOf(bs_in).media_type).v
             /\ ~new_async_decompressor(BlobOf(bs_in).media_type).ok => ~bs_out.res.ok
        ELSE /\ bs_out.requests = <<>>
             /\ ~bs_out.res.ok

\* A layer of containers-storage was fetched through a converted-layer record that
\* differs from the descriptor in digest, size and media type.
C34_Witness ==
    /\ bs_out # Pending
    /\ bs_in.transport_src = "ContainerStorage"
    /\ bs_out.res.ok
    /\ bs_out.res.v.layer_index = 1
    /\ BlobOf(bs_in).media_type # bs_in.layer.media_type
    /\ bs_out.res.v.total # bs_in.layer.size

\* C33: filter_tar_async does not drop the input stream before both the
\* blocking tar transformer and the copier have completed, with success or with
\* failure.
C33_InputHeldUntilBothComplete ==
    fa_src = "dropped" => Joined(fa_filter, fa_copier)

\* The input stream was dropped after a failure of the filter or of the copier.
C33_Witness ==
    /\ fa_src = "dropped"
    /\ fa_result # Pending
    /\ ~fa_result.ok

\* C39: filter_tar_async returns in the end, for every finite input and every
\* destination, a destination that fails while the filter has more output than
\* the duplex buffer holds included.
C39_FilterTarAsyncReturns ==
    <>(fa_result # Pending)

\* Unless the copier has failed while the worker thread runs, filter_tar_async
\* returns in the end.
ReturnsUnlessCopierFailedFirst ==
    <>(\/ fa_result # Pending
       \/ fa_copier \notin {Pending, Ok("copied")} /\ fa_filter = Pending)

=============================================================================
